---- MODULE Spec2Model ----
(***************************************************************************)
(* Model of gobpftool: the program / map enumeration engines               *)
(* (pkg/prog, pkg/maps), the map commands of cmd/map.go with the error     *)
(* classifiers of internal/errors, and the pinned-path scanner             *)
(* (internal/bpffs).                                                       *)
(***************************************************************************)
EXTENDS Integers, Sequences, FiniteSets, TLC

\* ------------------------------------------------------------------------
\* Bounds
\* ------------------------------------------------------------------------
\* largest object ID the kernel table hands out in the model
MaxID == 3

IDs == 1..MaxID

\* largest byte value of a key in the model
MaxByte == 1

\* largest number of entries the inspected map holds in the model
MaxEntries == 2

\* how far the wall clock advances in the model
MaxTick == 1

Bytes == 0..MaxByte

Kinds == {"prog", "map"}

\* ------------------------------------------------------------------------
\* Go error values.  An error is what the classifiers can observe of it:
\*   nil  - the nil error
\*   is   - the targets errors.Is reports (errnos and sentinels in the chain)
\*   txt  - the phrases strings.Contains finds in strings.ToLower(err.Error())
\*   raw  - the value is a bare syscall.Errno (os.IsNotExist / os.IsPermission
\*          do not look through fmt.Errorf wrappers)
\* ------------------------------------------------------------------------
Nil == [nil |-> TRUE, is |-> {}, txt |-> {}, raw |-> FALSE]

ErrnoText(e) ==
    CASE e = "ENOENT" -> {"no such file or directory"}
      [] e = "EPERM"  -> {"operation not permitted"}
      [] e = "EACCES" -> {"permission denied"}
      [] OTHER        -> {}

\* an errno as the library returns it: bare (raw) or inside a wrapper
Errno(e, raw) == [nil |-> FALSE, is |-> {e}, txt |-> ErrnoText(e), raw |-> raw]

\* fmt.Errorf("<context>: %w", err): the chain is kept, the text is prefixed
Wrapf(ctx, err) == [nil |-> FALSE, is |-> err.is, txt |-> ctx \cup err.txt, raw |-> FALSE]

\* fmt.Errorf("<message>") / errors.New("<message>"): a fresh error, no chain
Errorf(msg) == [nil |-> FALSE, is |-> {}, txt |-> msg, raw |-> FALSE]

ErrNotFound    == [nil |-> FALSE, is |-> {"ErrNotFound"}, txt |-> {"not found"}, raw |-> FALSE]
ErrPermission  == [nil |-> FALSE, is |-> {"ErrPermission"}, txt |-> {"permission denied"}, raw |-> FALSE]
ErrKeyNotFound == [nil |-> FALSE, is |-> {"ErrKeyNotFound"}, txt |-> {"not found"}, raw |-> FALSE]
ErrNoMoreKeys  == [nil |-> FALSE, is |-> {"ErrNoMoreKeys"}, txt |-> {"no more keys"}, raw |-> FALSE]
ErrMapEmpty    == [nil |-> FALSE, is |-> {"ErrMapEmpty"}, txt |-> {}, raw |-> FALSE]
ErrInvalidKey  == [nil |-> FALSE, is |-> {"ErrInvalidKey"}, txt |-> {}, raw |-> FALSE]

OsIsNotExist(err) == ~err.nil /\ err.raw /\ "ENOENT" \in err.is

OsIsPermission(err) == ~err.nil /\ err.raw /\ err.is \cap {"EPERM", "EACCES"} # {}

IsPermissionError(err) ==
    IF err.nil THEN FALSE
    ELSE \/ "ErrPermission" \in err.is
         \/ err.is \cap {"EPERM", "EACCES"} # {}
         \/ OsIsPermission(err)
         \/ err.txt \cap {"permission denied", "operation not permitted"} # {}

IsNotFoundError(err) ==
    IF err.nil THEN FALSE
    ELSE \/ err.is \cap {"ErrNotFound", "ErrKeyNotFound"} # {}
         \/ "ENOENT" \in err.is
         \/ OsIsNotExist(err)
         \/ err.txt \cap {"not found", "no such file or directory"} # {}

IsNoMoreKeysError(err) ==
    IF err.nil THEN FALSE
    ELSE \/ "ErrNoMoreKeys" \in err.is
         \/ "ENOENT" \in err.is
         \/ err.txt \cap {"no more keys", "no such file or directory"} # {}

\* ------------------------------------------------------------------------
\* The kernel object table as seen through the library (cilium/ebpf).
\* Every call is refused with EPERM when the process lacks CAP_BPF, may fail
\* with a transport error (fault), and otherwise answers from the table.
\* ------------------------------------------------------------------------
Faults == {"none", "EINVAL"}

Min(S) == CHOOSE x \in S : \A y \in S : x <= y

\* faulty variant: the smallest live ID from `after` on, `after` included
GetNextID_NotAbove(tbl, after, cap, fault, raw) ==
    LET from == {i \in tbl : i >= after} IN
    IF ~cap THEN [id |-> 0, err |-> Errno("EPERM", raw)]
    ELSE IF fault # "none" THEN [id |-> 0, err |-> Errno(fault, raw)]
    ELSE IF from = {} THEN [id |-> 0, err |-> Errno("ENOENT", raw)]
    ELSE [id |-> Min(from), err |-> Nil]

\* ProgramGetNextID / MapGetNextID: the smallest live ID above `after`
GetNextID(tbl, after, cap, fault, raw) ==
    LET above == {i \in tbl : i > after} IN
    IF ~cap THEN [id |-> 0, err |-> Errno("EPERM", raw)]
    ELSE IF fault # "none" THEN [id |-> 0, err |-> Errno(fault, raw)]
    ELSE IF above = {} THEN [id |-> 0, err |-> Errno("ENOENT", raw)]
    ELSE [id |-> Min(above), err |-> Nil]

\* NewProgramFromID / NewMapFromID: a handle on a live ID
NewFromID(tbl, i, cap, fault, raw) ==
    IF ~cap THEN Errno("EPERM", raw)
    ELSE IF fault # "none" THEN Errno(fault, raw)
    ELSE IF i \notin tbl THEN Errno("ENOENT", raw)
    ELSE Nil

\* ------------------------------------------------------------------------
\* State
\* ------------------------------------------------------------------------
VARIABLES
    \* kernel side
    cap,            \* the process holds CAP_BPF / CAP_SYS_ADMIN
    table,          \* live IDs of the kind being inspected
    \* enumeration engines (pkg/prog, pkg/maps)
    kind,           \* which engine runs: "prog" (EBPFService) or "map" (serviceImpl)
    epc,            \* position of the running operation
    op,             \* the operation: "none", "List", "GetByID"
    id,             \* List: the cursor `id`
    firstIteration, \* maps List: the firstIteration flag
    records,        \* List: `programs` / `maps` collected so far
    ret,            \* the returned (value, error) pair
    walk,           \* history: one entry per next-ID / open call of the operation
    \* map commands (cmd/map.go over pkg/maps)
    mpc,            \* position of the running command
    mcmd,           \* "none", "getnext", "lookup", "dump"
    mid,            \* mapID the command resolved
    content,        \* the map's entries, in kernel iteration order
    keyData,        \* the parsed key argument
    entries,        \* Dump: `entries` collected so far
    iterPos,        \* Dump: the iterator's cursor (last key it yielded)
    mhandle,        \* a handle on the map is open
    mret,           \* what the command returned
    mlog,           \* history: one entry per library call of the service call
    yielded,        \* history, Dump: the pairs the iterator yielded, step by step
    \* pinned-path scanner (internal/bpffs)
    rootExists,     \* the bpffs root directory exists
    fs,             \* what is pinned at each path under the root
    mu,             \* Scanner.mu
    progPaths,      \* Scanner.progPaths
    mapPaths,       \* Scanner.mapPaths
    scanned,        \* Scanner.scanned
    todo,           \* the running walk: paths still to visit
    spc,            \* per thread: position in its Scanner call
    sop,            \* per thread: the call and its argument
    sres,           \* per thread: the slice the last Get call returned
    shist,          \* history, per thread and for the last scan
    \* a session of service calls, and the process around a command
    farg,           \* GetByTag / GetByName: the tag or name asked for
    lret,           \* what the last List() call returned, and the table it saw
    now,            \* time.Now()
    exit,           \* the exit code of the process, -1 while it runs
    \* a cursor traversal of the inspected map (GetNextKey, then Lookup)
    tpc,            \* position of the traversal
    tcur,           \* the key the next GetNextKey call is given
    tkeys,          \* the keys yielded so far
    tend,           \* the error that ended the traversal
    tlook,          \* the Lookup calls made after the traversal
    tprev,          \* the keys an earlier traversal yielded
    \* the global scanner instance (GetScanner)
    once,           \* scannerOnce
    created,        \* how many Scanner values were constructed
    globalScanner,  \* the instance the global points to, 0 for nil
    gpc,            \* per thread: position in GetScanner
    gres,           \* per thread: the instance GetScanner returned, 0 for none
    \* a call of WrapError (pkg/errors)
    wpc,            \* position of the call
    win,            \* its arguments: the error and the context
    wout,           \* the error it returned
    \* an engine operation seen at the grain of its handles
    hpc,            \* position of the operation
    hop,            \* the operation
    hcur,           \* the ID it works on (List: the cursor)
    hopen,          \* how many handles it holds open
    hexit,          \* the path on which it left the handle's scope
    hn              \* Dump: pairs yielded so far

kernVars == <<cap, table>>

engVars == <<kind, epc, op, id, firstIteration, records, ret, walk>>

mapVars == <<mpc, mcmd, mid, content, keyData, entries, iterPos, yielded, mhandle, mret, mlog>>

scanVars == <<rootExists, fs, mu, progPaths, mapPaths, scanned, todo, spc, sop, sres, shist>>

callVars == <<farg, lret, now, exit>>

travVars == <<tpc, tcur, tkeys, tend, tlook, tprev>>

onceVars == <<once, created, globalScanner, gpc, gres>>

wrapVars == <<wpc, win, wout>>

handleVars == <<hpc, hop, hcur, hopen, hexit, hn>>

vars == <<kernVars, engVars, mapVars, scanVars, callVars, travVars, onceVars, wrapVars,
          handleVars>>

\* object attributes reported by Info(); names and tags are not unique
NameOf(i) == IF i % 2 = 1 THEN "a" ELSE "b"

TagOf(i) == IF i <= 2 THEN "t1" ELSE "t2"

\* info.LoadTime(): how long after boot the program was loaded
LoadTimeOf(i) == i

NoRecord == [ID |-> 0, Name |-> "", Tag |-> "", LoadedAt |-> 0]

\* what Info() / info.ID() can report for an open handle
InfoOutcomes == {"ok", "infoerr", "noid"}

\* extractProgramInfo: Info() must succeed and the ID must be resolvable;
\* LoadedAt is time.Now() less the load time
extractProgramInfo(i, info) ==
    IF info = "infoerr" THEN [rec |-> NoRecord, err |-> Wrapf({}, Errno("EINVAL", FALSE))]
    ELSE IF info = "noid" THEN [rec |-> NoRecord, err |-> Errorf({})]
    ELSE [rec |-> [ID |-> i, Name |-> NameOf(i), Tag |-> TagOf(i),
                   LoadedAt |-> now - LoadTimeOf(i)],
          err |-> Nil]

\* mapToMapInfo: Info() must succeed; the ok flag of info.ID() is dropped,
\* an unresolvable ID becomes the zero ID
mapToMapInfo(i, info) ==
    IF info = "infoerr" THEN [rec |-> NoRecord, err |-> Wrapf({}, Errno("EINVAL", FALSE))]
    ELSE [rec |-> [ID |-> IF info = "noid" THEN 0 ELSE i, Name |-> NameOf(i), Tag |-> "",
                   LoadedAt |-> 0],
          err |-> Nil]

NoRet == [recs |-> <<>>, err |-> Nil]

KernInit ==
    /\ cap \in BOOLEAN
    /\ table \in SUBSET IDs

\* no engine operation is running
EngIdle ==
    /\ epc = "idle"
    /\ op = "none"
    /\ id = 0
    /\ firstIteration = TRUE
    /\ records = <<>>
    /\ ret = NoRet
    /\ walk = <<>>

EngInit ==
    /\ kind \in Kinds
    /\ EngIdle

\* ------------------------------------------------------------------------
\* The kernel table changes under the tool: no snapshot, no lock
\* ------------------------------------------------------------------------
KernelCreate(i) ==
    /\ epc \in {"idle", "next", "open"}
    /\ i \notin table
    /\ table' = table \cup {i}
    /\ UNCHANGED <<cap, engVars, mapVars, scanVars, callVars, travVars, onceVars, wrapVars, handleVars>>

KernelDestroy(i) ==
    /\ epc \in {"idle", "next", "open"}
    /\ i \in table
    /\ table' = table \ {i}
    /\ UNCHANGED <<cap, engVars, mapVars, scanVars, callVars, travVars, onceVars, wrapVars, handleVars>>

\* ------------------------------------------------------------------------
\* List: the ID walk
\* ------------------------------------------------------------------------
StartList ==
    /\ epc = "idle"
    /\ epc' = "next"
    /\ op' = "List"
    /\ id' = 0
    /\ firstIteration' = TRUE
    /\ records' = <<>>
    /\ UNCHANGED <<kernVars, kind, ret, walk, mapVars, scanVars, callVars, travVars, onceVars, wrapVars, handleVars>>

NextEntry(after, r) ==
    [call |-> "next", after |-> after, id |-> r.id, err |-> r.err, res |-> "-", rec |-> NoRecord]

OpenEntry(i, e, x) ==
    [call |-> "open", after |-> i, id |-> i, err |-> e,
     res |-> IF ~e.nil THEN "openfail" ELSE IF ~x.err.nil THEN "infofail" ELSE "ok",
     rec |-> IF e.nil /\ x.err.nil THEN x.rec ELSE NoRecord]

\* faulty variant: the first-iteration check is missing, as in the program engine
MapListNextID_NoFirstCheck(fault, raw) ==
    /\ epc = "next" /\ kind = "map"
    /\ LET r == GetNextID(table, id, cap, fault, raw) IN
       /\ walk' = Append(walk, NextEntry(id, r))
       /\ IF ~r.err.nil
          THEN /\ epc' = "done"
               /\ ret' = [recs |-> records, err |-> Nil]
               /\ UNCHANGED <<id, firstIteration>>
          ELSE /\ firstIteration' = FALSE
               /\ id' = r.id
               /\ epc' = "open"
               /\ UNCHANGED ret
    /\ UNCHANGED <<kernVars, kind, op, records, mapVars, scanVars, callVars, travVars, onceVars, wrapVars, handleVars>>

\* faulty variant: the walk's end discards what was collected
ProgListNextID_DropsRecords(fault, raw) ==
    /\ epc = "next" /\ kind = "prog"
    /\ LET r == GetNextID(table, id, cap, fault, raw) IN
       /\ walk' = Append(walk, NextEntry(id, r))
       /\ IF ~r.err.nil
          THEN /\ epc' = "done"
               /\ ret' = [recs |-> <<>>, err |-> Nil]
               /\ UNCHANGED id
          ELSE /\ id' = r.id
               /\ epc' = "open"
               /\ UNCHANGED ret
    /\ UNCHANGED <<kernVars, kind, op, firstIteration, records, mapVars, scanVars, callVars, travVars, onceVars, wrapVars, handleVars>>

\* EBPFService.List, top of the loop: any error of ProgramGetNextID ends the
\* walk and the collected programs are returned with a nil error
ProgListNextID(fault, raw) ==
    /\ epc = "next" /\ kind = "prog"
    /\ LET r == GetNextID(table, id, cap, fault, raw) IN
       /\ walk' = Append(walk, NextEntry(id, r))
       /\ IF ~r.err.nil
          THEN /\ epc' = "done"
               /\ ret' = [recs |-> records, err |-> Nil]
               /\ UNCHANGED id
          ELSE /\ id' = r.id
               /\ epc' = "open"
               /\ UNCHANGED ret
    /\ UNCHANGED <<kernVars, kind, op, firstIteration, records, mapVars, scanVars, callVars, travVars, onceVars, wrapVars, handleVars>>

\* serviceImpl.List, top of the loop: an error of MapGetNextID on the first
\* iteration is returned, on a later iteration it ends the walk
MapListNextID(fault, raw) ==
    /\ epc = "next" /\ kind = "map"
    /\ LET r == GetNextID(table, id, cap, fault, raw) IN
       /\ walk' = Append(walk, NextEntry(id, r))
       /\ IF ~r.err.nil
          THEN /\ epc' = "done"
               /\ ret' = IF firstIteration
                         THEN [recs |-> <<>>, err |-> Wrapf({}, r.err)]
                         ELSE [recs |-> records, err |-> Nil]
               /\ UNCHANGED <<id, firstIteration>>
          ELSE /\ firstIteration' = FALSE
               /\ id' = r.id
               /\ epc' = "open"
               /\ UNCHANGED ret
    /\ UNCHANGED <<kernVars, kind, op, records, mapVars, scanVars, callVars, travVars, onceVars, wrapVars, handleVars>>

\* the rest of one loop iteration: open the discovered ID, extract, close,
\* append; an ID that cannot be opened or extracted is skipped
ListOpenBody(x, fault, raw) ==
    /\ epc = "open"
    /\ LET e == NewFromID(table, id, cap, fault, raw)
           ent == OpenEntry(id, e, x)
       IN /\ walk' = Append(walk, ent)
          /\ records' = IF ent.res = "ok" THEN Append(records, x.rec) ELSE records
    /\ epc' = "next"
    /\ UNCHANGED <<kernVars, kind, op, id, firstIteration, ret, mapVars, scanVars, callVars, travVars, onceVars, wrapVars, handleVars>>

\* faulty variant: an ID that cannot be opened ends the walk with its error
ProgListOpen_AbortsOnOpenFailure(fault, raw, info) ==
    /\ kind = "prog"
    /\ epc = "open"
    /\ LET e == NewFromID(table, id, cap, fault, raw)
           x == extractProgramInfo(id, info)
           ent == OpenEntry(id, e, x)
       IN /\ walk' = Append(walk, ent)
          /\ records' = IF ent.res = "ok" THEN Append(records, x.rec) ELSE records
          /\ IF ~e.nil
             THEN epc' = "done" /\ ret' = [recs |-> <<>>, err |-> Wrapf({}, e)]
             ELSE epc' = "next" /\ UNCHANGED ret
    /\ UNCHANGED <<kernVars, kind, op, id, firstIteration, mapVars, scanVars, callVars, travVars, onceVars, wrapVars, handleVars>>

ProgListOpen(fault, raw, info) ==
    /\ kind = "prog"
    /\ ListOpenBody(extractProgramInfo(id, info), fault, raw)

MapListOpen(fault, raw, info) ==
    /\ kind = "map"
    /\ ListOpenBody(mapToMapInfo(id, info), fault, raw)

\* ------------------------------------------------------------------------
\* GetByID: one open, one extraction
\* ------------------------------------------------------------------------
\* faulty variant: the library's error is reported by its text only, not wrapped
ProgGetByIDError_NotWrapped(e) ==
    IF OsIsNotExist(e) THEN Errorf({"not found"}) ELSE Errorf({})

\* EBPFService.GetByID, the error built when NewProgramFromID fails
ProgGetByIDError(e) ==
    IF OsIsNotExist(e) THEN Errorf({"not found"}) ELSE Wrapf({}, e)

\* serviceImpl.GetByID, the error built when NewMapFromID fails
MapGetByIDError(e) == Wrapf({}, e)

GetByIDBody(i, e, openErr, x) ==
    /\ epc = "idle"
    /\ op' = "GetByID"
    /\ epc' = "done"
    /\ id' = i
    /\ walk' = <<OpenEntry(i, e, x)>>
    /\ ret' = IF ~e.nil THEN [recs |-> <<>>, err |-> openErr]
              ELSE IF ~x.err.nil THEN [recs |-> <<>>, err |-> x.err]
              ELSE [recs |-> <<x.rec>>, err |-> Nil]
    /\ UNCHANGED <<kernVars, kind, firstIteration, records, mapVars, scanVars, callVars, travVars, onceVars, wrapVars, handleVars>>

ProgGetByID(i, fault, raw, info) ==
    /\ kind = "prog"
    /\ LET e == NewFromID(table, i, cap, fault, raw) IN
       GetByIDBody(i, e, ProgGetByIDError(e), extractProgramInfo(i, info))

MapGetByID(i, fault, raw, info) ==
    /\ kind = "map"
    /\ LET e == NewFromID(table, i, cap, fault, raw) IN
       GetByIDBody(i, e, MapGetByIDError(e), mapToMapInfo(i, info))

\* ------------------------------------------------------------------------
\* A caller of the Service interface: List() followed by another call, the
\* List()-based filters, and the process around one command
\* ------------------------------------------------------------------------
NoList == [valid |-> FALSE, recs |-> <<>>, err |-> Nil, table |-> {}]

CallIdle ==
    /\ farg = ""
    /\ lret = NoList
    /\ now = 0
    /\ exit = -1

\* the wall clock advances between List()'s return and the caller's next call
Tick ==
    /\ lret.valid /\ epc = "idle"
    /\ now < MaxTick
    /\ now' = now + 1
    /\ UNCHANGED <<kernVars, engVars, mapVars, scanVars, farg, lret, exit, travVars, onceVars, wrapVars, handleVars>>

\* List() has returned; the caller keeps the result and is ready to call again
ThenCall ==
    /\ op = "List" /\ epc = "done"
    /\ exit = -1
    /\ ~lret.valid
    /\ lret' = [valid |-> TRUE, recs |-> ret.recs, err |-> ret.err, table |-> table]
    /\ epc' = "idle"
    /\ op' = "none"
    /\ id' = 0
    /\ firstIteration' = TRUE
    /\ records' = <<>>
    /\ ret' = NoRet
    /\ walk' = <<>>
    /\ UNCHANGED <<kernVars, kind, mapVars, scanVars, farg, now, exit, travVars, onceVars, wrapVars, handleVars>>

\* the tags and names a caller asks for: those in use, and one nothing has
TagArgs == {TagOf(i) : i \in IDs} \cup {"zz"}

NameArgs == {NameOf(i) : i \in IDs} \cup {"zz"}

\* GetByTag / GetByName begin with a full List()
StartFilter(o, arg) ==
    /\ epc = "idle"
    /\ ~lret.valid
    /\ epc' = "next"
    /\ op' = o
    /\ farg' = arg
    /\ id' = 0
    /\ firstIteration' = TRUE
    /\ records' = <<>>
    /\ UNCHANGED <<kernVars, kind, ret, walk, mapVars, scanVars, lret, now, exit, travVars,
                   onceVars, wrapVars, handleVars>>

\* EBPFService.GetByTag(tag)
StartGetByTag(tag) ==
    /\ kind = "prog"
    /\ StartFilter("GetByTag", tag)

\* EBPFService.GetByName(name) / serviceImpl.GetByName(name)
StartGetByName(name) == StartFilter("GetByName", name)

\* for _, p := range all { if p.<field> == arg { matched = append(matched, p) } }
Matched(all, field, arg) == SelectSeq(all, LAMBDA p : p[field] = arg)

\* the first element of a list, if any
FirstOf(s) == IF s = <<>> THEN <<>> ELSE <<s[1]>>

\* faulty variant: the loop stops at the first match
FilterReturn_FirstMatchOnly(o, field) ==
    /\ op = o /\ epc = "done"
    /\ lret' = [valid |-> TRUE, recs |-> ret.recs, err |-> ret.err, table |-> table]
    /\ ret' = IF ~ret.err.nil THEN [recs |-> <<>>, err |-> ret.err]
              ELSE [recs |-> FirstOf(Matched(ret.recs, field, farg)), err |-> Nil]
    /\ epc' = "ret"
    /\ UNCHANGED <<kernVars, kind, op, id, firstIteration, records, walk, mapVars, scanVars,
                   farg, now, exit, travVars, onceVars, wrapVars, handleVars>>

\* the rest of GetByTag / GetByName once List() has returned: List's error
\* is returned as it is, otherwise the matching records
FilterReturn(o, field) ==
    /\ op = o /\ epc = "done"
    /\ lret' = [valid |-> TRUE, recs |-> ret.recs, err |-> ret.err, table |-> table]
    /\ ret' = IF ~ret.err.nil THEN [recs |-> <<>>, err |-> ret.err]
              ELSE [recs |-> Matched(ret.recs, field, farg), err |-> Nil]
    /\ epc' = "ret"
    /\ UNCHANGED <<kernVars, kind, op, id, firstIteration, records, walk, mapVars, scanVars,
                   farg, now, exit, travVars, onceVars, wrapVars, handleVars>>

GetByTagReturn == FilterReturn("GetByTag", "Tag")

GetByNameReturn == FilterReturn("GetByName", "Name")

\* ExitCode: 0 for nil, 1 for any error
ExitCode(err) == IF err.nil THEN 0 ELSE 1

\* the service call of the command has returned
Returned ==
    \/ op \in {"List", "GetByID"} /\ epc = "done"
    \/ op \in {"GetByTag", "GetByName"} /\ epc = "ret"

\* runProgShow / runMapShow return the service's error, or nil after
\* printing; main exits with 1 when Execute returns an error
main ==
    /\ Returned
    /\ exit = -1
    /\ exit' = ExitCode(ret.err)
    /\ UNCHANGED <<kernVars, engVars, mapVars, scanVars, farg, lret, now, travVars, onceVars, wrapVars, handleVars>>

\* ------------------------------------------------------------------------
\* Map contents and the library's map primitives
\* ------------------------------------------------------------------------
\* info.KeySize / info.ValueSize of the inspected map
KeySize == 1

ValueSize == 1

Keys == [1..KeySize -> Bytes]

\* the value the kernel stores under a key
ValueOf(k) == [i \in 1..ValueSize |-> MaxByte - k[1]]

\* a map's keys in kernel iteration order: no key twice
Contents ==
    {c \in UNION {[1..n -> Keys] : n \in 0..MaxEntries} :
        \A i, j \in 1..Len(c) : i # j => c[i] # c[j]}

IndexOf(c, k) == IF \E i \in 1..Len(c) : c[i] = k THEN CHOOSE i \in 1..Len(c) : c[i] = k ELSE 0

\* a []byte: the nil slice, or a (possibly empty) byte sequence
NilKey == [nil |-> TRUE, b |-> <<>>]

Bytes_(b) == [nil |-> FALSE, b |-> b]

\* the library's errors: a key or value of the wrong length does not marshal;
\* an absent key / the end of the key space is ErrKeyNotExist, which is ENOENT
MarshalError == Errorf({})

ErrKeyNotExist == [nil |-> FALSE, is |-> {"ENOENT", "ErrKeyNotExist"}, txt |-> {}, raw |-> FALSE]

ErrIterationAborted == Errorf({})

\* Map.NextKey(key, &nextKey): a nil key asks for the first key; a key that is
\* not in the map restarts from the first key; after the last key: ENOENT
MapNextKey(c, key, fault) ==
    IF ~key.nil /\ Len(key.b) # KeySize THEN [key |-> <<>>, err |-> Wrapf({}, MarshalError)]
    ELSE IF fault # "none" THEN [key |-> <<>>, err |-> Wrapf({}, Errno(fault, FALSE))]
    ELSE LET p == IF key.nil THEN 0 ELSE IndexOf(c, key.b) IN
         IF p >= Len(c) THEN [key |-> <<>>, err |-> Wrapf({}, ErrKeyNotExist)]
         ELSE [key |-> c[p + 1], err |-> Nil]

\* Map.Lookup(key, &value)
MapLookup(c, key, fault) ==
    IF key.nil \/ Len(key.b) # KeySize THEN [value |-> <<>>, err |-> Wrapf({}, MarshalError)]
    ELSE IF fault # "none" THEN [value |-> <<>>, err |-> Wrapf({}, Errno(fault, FALSE))]
    ELSE IF IndexOf(c, key.b) = 0 THEN [value |-> <<>>, err |-> Wrapf({}, ErrKeyNotExist)]
    ELSE [value |-> ValueOf(key.b), err |-> Nil]

\* ------------------------------------------------------------------------
\* ParseHexBytes on the arguments after the "key" keyword
\* ------------------------------------------------------------------------
\* one argument: a hex byte, an empty / blank string, or not a hex byte
Toks ==
    [k : {"byte"}, v : Bytes] \cup {[k |-> "blank", v |-> 0], [k |-> "bad", v |-> 0]}

\* the key arguments of a command line: no "key" keyword, or the keyword
\* followed by some arguments (none when "key" is the last argument)
KeyArgs ==
    {[given |-> FALSE, toks |-> <<>>]} \cup
    {[given |-> TRUE, toks |-> t] : t \in UNION {[1..n -> Toks] : n \in 0..(KeySize + 1)}}

\* strings.Fields drops the blanks; no part left gives []byte{}, not nil
ParseHexBytes(toks) ==
    LET parts == SelectSeq(toks, LAMBDA t : t.k # "blank") IN
    IF \E i \in 1..Len(parts) : parts[i].k = "bad"
    THEN [data |-> NilKey, err |-> Errorf({})]
    ELSE [data |-> Bytes_([i \in 1..Len(parts) |-> parts[i].v]), err |-> Nil]

\* ------------------------------------------------------------------------
\* pkg/maps: Lookup, GetNextKey (one call each), Dump (one step per
\* iterator step, the map can change between steps)
\* ------------------------------------------------------------------------
LogEntry(prim, err) == [prim |-> prim, err |-> err]

InfoError == Errno("EINVAL", FALSE)

\* serviceImpl.GetNextKey(id, key)
GetNextKey(i, key, fo, raw, info, fk) ==
    LET e == NewFromID(table, i, cap, fo, raw)
        r == MapNextKey(content, key, fk)
    IN IF ~e.nil
       THEN [val |-> <<>>, err |-> Wrapf({}, e), log |-> <<LogEntry("open", e)>>]
       ELSE IF info # "ok"
       THEN [val |-> <<>>, err |-> Wrapf({}, InfoError),
             log |-> <<LogEntry("open", Nil), LogEntry("info", InfoError)>>]
       ELSE [val |-> r.key, err |-> IF r.err.nil THEN Nil ELSE Wrapf({}, r.err),
             log |-> <<LogEntry("open", Nil), LogEntry("info", Nil), LogEntry("nextkey", r.err)>>]

\* serviceImpl.Lookup(id, key)
Lookup(i, key, fo, raw, info, fk) ==
    LET e == NewFromID(table, i, cap, fo, raw)
        r == MapLookup(content, key, fk)
    IN IF ~e.nil
       THEN [val |-> <<>>, err |-> Wrapf({}, e), log |-> <<LogEntry("open", e)>>]
       ELSE IF info # "ok"
       THEN [val |-> <<>>, err |-> Wrapf({}, InfoError),
             log |-> <<LogEntry("open", Nil), LogEntry("info", InfoError)>>]
       ELSE [val |-> r.value, err |-> IF r.err.nil THEN Nil ELSE Wrapf({}, r.err),
             log |-> <<LogEntry("open", Nil), LogEntry("info", Nil), LogEntry("lookup", r.err)>>]

NoMRet == [stage |-> "none", val |-> <<>>, err |-> Nil]

MapIdle ==
    /\ mpc = "idle"
    /\ mcmd = "none"
    /\ mid = 0
    /\ keyData = NilKey
    /\ entries = <<>>
    /\ iterPos = NilKey
    /\ yielded = <<>>
    /\ mhandle = FALSE
    /\ mret = NoMRet
    /\ mlog = <<>>

MapInit ==
    /\ content \in Contents
    /\ MapIdle

\* ------------------------------------------------------------------------
\* The kernel changes the map and the table under the running command
\* ------------------------------------------------------------------------
Running == mpc \in {"resolved", "iter"}

\* the map goes away; an open handle keeps it alive
KernelDestroyMap ==
    /\ Running /\ ~mhandle
    /\ mid \in table
    /\ table' = table \ {mid}
    /\ UNCHANGED <<cap, engVars, mapVars, scanVars, callVars, travVars, onceVars, wrapVars, handleVars>>

KernelMapDelete(k) ==
    /\ Running
    /\ IndexOf(content, k) # 0
    /\ content' = SelectSeq(content, LAMBDA x : x # k)
    /\ UNCHANGED <<kernVars, engVars, mpc, mcmd, mid, keyData, entries, iterPos, yielded, mhandle,
                   mret, mlog, scanVars, callVars, travVars, onceVars, wrapVars, handleVars>>

KernelMapInsert(k, p) ==
    /\ Running
    /\ IndexOf(content, k) = 0
    /\ Len(content) < MaxEntries
    /\ p \in 0..Len(content)
    /\ content' = SubSeq(content, 1, p) \o <<k>> \o SubSeq(content, p + 1, Len(content))
    /\ UNCHANGED <<kernVars, engVars, mpc, mcmd, mid, keyData, entries, iterPos, yielded, mhandle,
                   mret, mlog, scanVars, callVars, travVars, onceVars, wrapVars, handleVars>>

\* ------------------------------------------------------------------------
\* cmd/map.go: the commands, for the "id" identifier.  Each command parses
\* its key, resolves the map with GetByID, then calls the service.
\* ------------------------------------------------------------------------
\* the command ends here with this error (or result)
Finish(stage, val, err) ==
    /\ mpc' = "done"
    /\ mret' = [stage |-> stage, val |-> val, err |-> err]

\* the key parsing and the map resolution shared by the three commands
ResolveBody(cmd, needKey, args, i, fault, raw, info) ==
    /\ mpc = "idle"
    /\ mcmd' = cmd
    /\ mid' = i
    /\ LET hasKey == args.given /\ Len(args.toks) > 0
           p == IF hasKey THEN ParseHexBytes(args.toks) ELSE [data |-> NilKey, err |-> Nil]
           e == NewFromID(table, i, cap, fault, raw)
           x == mapToMapInfo(i, info)
       IN IF (needKey /\ ~hasKey) \/ ~p.err.nil
          THEN Finish("args", <<>>, ErrInvalidKey) /\ UNCHANGED keyData
          ELSE /\ keyData' = p.data
               /\ IF ~e.nil THEN Finish("resolve", <<>>, MapGetByIDError(e))
                  ELSE IF ~x.err.nil THEN Finish("resolve", <<>>, x.err)
                  ELSE mpc' = "resolved" /\ UNCHANGED mret
    /\ UNCHANGED <<kernVars, engVars, content, entries, iterPos, yielded, mhandle, mlog, scanVars, callVars, travVars, onceVars, wrapVars, handleVars>>

runMapGetNextResolve(args, i, fault, raw, info) ==
    ResolveBody("getnext", FALSE, args, i, fault, raw, info)

runMapLookupResolve(args, i, fault, raw, info) ==
    ResolveBody("lookup", TRUE, args, i, fault, raw, info)

runMapDumpResolve(i, fault, raw, info) ==
    ResolveBody("dump", FALSE, [given |-> FALSE, toks |-> <<>>], i, fault, raw, info)

\* faulty variant: the end of the key space is reported without looking at keyData
GetNextError_IgnoresKey(err, kd) ==
    IF IsNoMoreKeysError(err) THEN ErrMapEmpty ELSE err

\* runMapGetNext, the error returned when GetNextKey fails
GetNextError(err, kd) ==
    IF IsNoMoreKeysError(err)
    THEN IF kd.nil THEN ErrMapEmpty ELSE ErrNoMoreKeys
    ELSE err

runMapGetNextCall(fo, raw, info, fk) ==
    /\ mpc = "resolved" /\ mcmd = "getnext"
    /\ LET r == GetNextKey(mid, keyData, fo, raw, info, fk) IN
       /\ mlog' = r.log
       /\ IF ~r.err.nil THEN Finish("call", <<>>, GetNextError(r.err, keyData))
          ELSE Finish("call", r.val, Nil)
    /\ UNCHANGED <<kernVars, engVars, mcmd, mid, content, keyData, entries, iterPos, yielded, mhandle,
                   scanVars, callVars, travVars, onceVars, wrapVars, handleVars>>

\* faulty variant: the error of Lookup is returned as it is
LookupError_NotClassified(err) == err

\* runMapLookup, the error returned when Lookup fails
LookupError(err) ==
    IF IsNotFoundError(err) THEN ErrKeyNotFound ELSE err

runMapLookupCall(fo, raw, info, fk) ==
    /\ mpc = "resolved" /\ mcmd = "lookup"
    /\ LET r == Lookup(mid, keyData, fo, raw, info, fk) IN
       /\ mlog' = r.log
       /\ IF ~r.err.nil THEN Finish("call", <<>>, LookupError(r.err))
          ELSE Finish("call", r.val, Nil)
    /\ UNCHANGED <<kernVars, engVars, mcmd, mid, content, keyData, entries, iterPos, yielded, mhandle,
                   scanVars, callVars, travVars, onceVars, wrapVars, handleVars>>

\* serviceImpl.Dump, up to m.Iterate(): open the map and read its sizes
DumpOpen(fo, raw, info) ==
    /\ mpc = "resolved" /\ mcmd = "dump"
    /\ LET e == NewFromID(table, mid, cap, fo, raw) IN
       IF ~e.nil
       THEN /\ mlog' = <<LogEntry("open", e)>>
            /\ Finish("call", <<>>, Wrapf({}, e))
            /\ UNCHANGED <<mhandle, entries, iterPos, yielded>>
       ELSE IF info # "ok"
       THEN /\ mlog' = <<LogEntry("open", Nil), LogEntry("info", InfoError)>>
            /\ Finish("call", <<>>, Wrapf({}, InfoError))
            /\ UNCHANGED <<mhandle, entries, iterPos, yielded>>
       ELSE /\ mlog' = <<LogEntry("open", Nil), LogEntry("info", Nil)>>
            /\ mhandle' = TRUE
            /\ entries' = <<>>
            /\ iterPos' = NilKey
            /\ yielded' = <<>>
            /\ mpc' = "iter"
            /\ UNCHANGED mret
    /\ UNCHANGED <<kernVars, engVars, mcmd, mid, content, keyData, scanVars, callVars, travVars, onceVars, wrapVars, handleVars>>

\* MapIterator.Next: the next pair after the cursor, the end, or a failure;
\* the iterator gives up after max_entries pairs (the map keeps changing)
IterNext(c, pos, n, fault) ==
    LET r == MapNextKey(c, pos, "none") IN
    IF fault # "none" THEN [out |-> "fail", key |-> <<>>, err |-> Wrapf({}, Errno(fault, FALSE))]
    ELSE IF ~r.err.nil THEN [out |-> "end", key |-> <<>>, err |-> Nil]
    ELSE IF n >= MaxEntries THEN [out |-> "fail", key |-> <<>>, err |-> ErrIterationAborted]
    ELSE [out |-> "pair", key |-> r.key, err |-> Nil]

\* faulty variant: the key is copied but the value is not, so every entry
\* shares the iterator's value buffer and shows the value yielded last
DumpNext_SharesValueBuffer(fault) ==
    /\ mpc = "iter" /\ mcmd = "dump"
    /\ LET r == IterNext(content, iterPos, Len(entries), fault) IN
       /\ mlog' = Append(mlog, LogEntry("iter", r.err))
       /\ IF r.out = "pair"
          THEN /\ entries' = [k \in 1..(Len(entries) + 1) |->
                                 [Key |-> IF k <= Len(entries) THEN entries[k].Key ELSE r.key,
                                  Value |-> ValueOf(r.key)]]
               /\ iterPos' = Bytes_(r.key)
               /\ yielded' = Append(yielded, [Key |-> r.key, Value |-> ValueOf(r.key)])
               /\ UNCHANGED <<mpc, mret, mhandle>>
          ELSE /\ mhandle' = FALSE
               /\ IF r.out = "fail" THEN Finish("call", <<>>, Wrapf({}, r.err))
                  ELSE Finish("call", entries, Nil)
               /\ UNCHANGED <<entries, iterPos, yielded>>
    /\ UNCHANGED <<kernVars, engVars, mcmd, mid, content, keyData, scanVars, callVars, travVars, onceVars, wrapVars, handleVars>>

\* faulty variant: the pair is appended without a copy, so every entry shares
\* the iterator's buffers and shows the pair yielded last
DumpNext_SharesBuffers(fault) ==
    /\ mpc = "iter" /\ mcmd = "dump"
    /\ LET r == IterNext(content, iterPos, Len(entries), fault) IN
       /\ mlog' = Append(mlog, LogEntry("iter", r.err))
       /\ IF r.out = "pair"
          THEN /\ entries' = [k \in 1..(Len(entries) + 1) |->
                                 [Key |-> r.key, Value |-> ValueOf(r.key)]]
               /\ iterPos' = Bytes_(r.key)
               /\ yielded' = Append(yielded, [Key |-> r.key, Value |-> ValueOf(r.key)])
               /\ UNCHANGED <<mpc, mret, mhandle>>
          ELSE /\ mhandle' = FALSE
               /\ IF r.out = "fail" THEN Finish("call", <<>>, Wrapf({}, r.err))
                  ELSE Finish("call", entries, Nil)
               /\ UNCHANGED <<entries, iterPos, yielded>>
    /\ UNCHANGED <<kernVars, engVars, mcmd, mid, content, keyData, scanVars, callVars, travVars, onceVars, wrapVars, handleVars>>

\* faulty variant: iter.Err() is not checked, what was collected is returned
DumpNext_ReturnsPartial(fault) ==
    /\ mpc = "iter" /\ mcmd = "dump"
    /\ LET r == IterNext(content, iterPos, Len(entries), fault) IN
       /\ mlog' = Append(mlog, LogEntry("iter", r.err))
       /\ IF r.out = "pair"
          THEN /\ entries' = Append(entries, [Key |-> r.key, Value |-> ValueOf(r.key)])
               /\ iterPos' = Bytes_(r.key)
               /\ yielded' = Append(yielded, [Key |-> r.key, Value |-> ValueOf(r.key)])
               /\ UNCHANGED <<mpc, mret, mhandle>>
          ELSE /\ mhandle' = FALSE
               /\ Finish("call", entries, Nil)
               /\ UNCHANGED <<entries, iterPos, yielded>>
    /\ UNCHANGED <<kernVars, engVars, mcmd, mid, content, keyData, scanVars, callVars, travVars, onceVars, wrapVars, handleVars>>

\* serviceImpl.Dump, one turn of the loop: a pair is copied and appended;
\* when Next reports false, iter.Err() decides between the entries and the
\* error, and the deferred Close runs
DumpNext(fault) ==
    /\ mpc = "iter" /\ mcmd = "dump"
    /\ LET r == IterNext(content, iterPos, Len(entries), fault) IN
       /\ mlog' = Append(mlog, LogEntry("iter", r.err))
       /\ IF r.out = "pair"
          THEN /\ entries' = Append(entries, [Key |-> r.key, Value |-> ValueOf(r.key)])
               /\ iterPos' = Bytes_(r.key)
               /\ yielded' = Append(yielded, [Key |-> r.key, Value |-> ValueOf(r.key)])
               /\ UNCHANGED <<mpc, mret, mhandle>>
          ELSE /\ mhandle' = FALSE
               /\ IF r.out = "fail" THEN Finish("call", <<>>, Wrapf({}, r.err))
                  ELSE Finish("call", entries, Nil)
               /\ UNCHANGED <<entries, iterPos, yielded>>
    /\ UNCHANGED <<kernVars, engVars, mcmd, mid, content, keyData, scanVars, callVars, travVars, onceVars, wrapVars, handleVars>>

\* ------------------------------------------------------------------------
\* A cursor traversal by a caller of pkg/maps: GetNextKey from no key, each
\* returned key fed into the next call, then Lookup calls, on a map nothing
\* changes meanwhile.  Errors are named as runMapGetNext / runMapLookup do.
\* ------------------------------------------------------------------------
NoTraversal == [valid |-> FALSE, keys |-> <<>>, end |-> Nil]

TravIdle ==
    /\ tpc = "idle"
    /\ tcur = [id |-> 0, key |-> NilKey]
    /\ tkeys = <<>>
    /\ tend = Nil
    /\ tlook = <<>>
    /\ tprev = NoTraversal

\* the caller picks the map and starts with no key
TraverseStart(i) ==
    /\ tpc = "idle"
    /\ tpc' = "walk"
    /\ tcur' = [id |-> i, key |-> NilKey]
    /\ UNCHANGED <<kernVars, engVars, mapVars, scanVars, callVars, tkeys, tend, tlook, tprev,
                   onceVars, wrapVars, handleVars>>

\* one GetNextKey(id, key) call: a returned key becomes the next cursor, an
\* error ends the traversal
TraverseStep(fo, raw, info, fk) ==
    /\ tpc = "walk"
    /\ LET r == GetNextKey(tcur.id, tcur.key, fo, raw, info, fk) IN
       IF r.err.nil
       THEN /\ tkeys' = Append(tkeys, r.val)
            /\ tcur' = [tcur EXCEPT !.key = Bytes_(r.val)]
            /\ UNCHANGED <<tpc, tend>>
       ELSE /\ tend' = GetNextError(r.err, tcur.key)
            /\ tpc' = "look"
            /\ UNCHANGED <<tkeys, tcur>>
    /\ UNCHANGED <<kernVars, engVars, mapVars, scanVars, callVars, tlook, tprev, onceVars, wrapVars, handleVars>>

\* one Lookup(id, key) call after the traversal
TraverseLookup(k, fo, raw, info, fk) ==
    /\ tpc = "look"
    /\ tlook = <<>>
    /\ LET r == Lookup(tcur.id, Bytes_(k), fo, raw, info, fk) IN
       tlook' = Append(tlook, [key |-> k, val |-> r.val,
                               err |-> IF r.err.nil THEN Nil ELSE LookupError(r.err),
                               log |-> r.log])
    /\ UNCHANGED <<kernVars, engVars, mapVars, scanVars, callVars, tpc, tcur, tkeys, tend,
                   tprev, onceVars, wrapVars, handleVars>>

\* the caller traverses the same map a second time
TraverseAgain ==
    /\ tpc = "look"
    /\ ~tprev.valid
    /\ tprev' = [valid |-> TRUE, keys |-> tkeys, end |-> tend]
    /\ tpc' = "walk"
    /\ tcur' = [tcur EXCEPT !.key = NilKey]
    /\ tkeys' = <<>>
    /\ tend' = Nil
    /\ tlook' = <<>>
    /\ UNCHANGED <<kernVars, engVars, mapVars, scanVars, callVars, onceVars, wrapVars, handleVars>>

\* ------------------------------------------------------------------------
\* internal/bpffs: the pinned-path scanner, called from several threads
\* ------------------------------------------------------------------------
\* number of threads calling the scanner in the model
NThreads == 2

\* number of paths under the bpffs root in the model
NPaths == 2

\* largest ID of a pinned object in the model
MaxPinID == 2

Threads == 1..NThreads

Paths == 1..NPaths

PinIDs == 1..MaxPinID

\* what a path under the root is: nothing, a directory, a file that is no
\* pin, or a pin of a program / map with some ID
Absent == [k |-> "absent", id |-> 0]

FileStates ==
    {Absent, [k |-> "dir", id |-> 0], [k |-> "other", id |-> 0]} \cup
    [k : {"prog", "map"}, id : PinIDs]

\* a Go map[uint32][]string: a function on the IDs that have an entry
EmptyTable == [i \in {} |-> <<>>]

PathsOf(tbl, i) == IF i \in DOMAIN tbl THEN tbl[i] ELSE <<>>

\* tbl[id] = append(tbl[id], path)
AppendPath(tbl, i, p) ==
    [j \in DOMAIN tbl \cup {i} |-> IF j = i THEN Append(PathsOf(tbl, i), p) ELSE tbl[j]]

\* the names filepath.Walk reads from the root, in lexical order
RECURSIVE Listing(_, _)
Listing(f, p) ==
    IF p > NPaths THEN <<>>
    ELSE IF f[p].k = "absent" THEN Listing(f, p + 1)
    ELSE <<p>> \o Listing(f, p + 1)

Unlocked == [w |-> 0, r |-> {}]

\* the IDs callers ask for: one a pin can have, and one no pin has
AskIDs == {1, MaxPinID + 1}

GetOps == {"GetProg", "GetMap"}

\* a []string as a caller holds it: what it reads now (paths), what the call
\* returned (orig), what the call before it returned if that was for the same
\* ID and no scan ran in between (prev, and whether the caller had written to
\* that earlier list), whether it shares its backing array with a table entry
\* (alias), and whether the caller has written to it (dirty)
NoPrev == [known |-> FALSE, paths |-> <<>>, mutated |-> FALSE]

NoAlias == [tbl |-> "none", id |-> 0]

NoSlice == [paths |-> <<>>, orig |-> <<>>, prev |-> NoPrev, alias |-> NoAlias, dirty |-> FALSE]

\* the most recent Get call since the last scan
NoLast == [known |-> FALSE, key |-> <<"none", 0>>, paths |-> <<>>, dirty |-> FALSE]

\* how a path answers the walk: it can be stat'ed and opened, it cannot be
\* stat'ed, or it can be stat'ed but not opened
Access == {"ok", "nostat", "noopen"}

\* the history of the latest walk: the names it read from the root (listed),
\* what the callback saw at each of them (seen: an error, a directory or a
\* file), and the probes it made (probes: path, kind, whether the open
\* succeeded, the ID extracted or 0)
NoWalk == [listed |-> {}, seen |-> {}, probes |-> {}]

StartWalk(f) ==
    [listed |-> {Listing(f, 1)[k] : k \in 1..Len(Listing(f, 1))}, seen |-> {}, probes |-> {}]

Probe(p, k, opened, i) == [path |-> p, kind |-> k, opened |-> opened, id |-> i]

NoHist ==
    [fresh |-> [t \in Threads |-> TRUE], walked |-> [t \in Threads |-> FALSE], found |-> {},
     last |-> NoLast, noRoot |-> FALSE, had |-> FALSE, walk |-> NoWalk]

ScanInit ==
    /\ rootExists \in BOOLEAN
    /\ fs \in [Paths -> FileStates]
    /\ rootExists \/ fs = [p \in Paths |-> Absent]
    /\ mu = Unlocked
    /\ progPaths = EmptyTable
    /\ mapPaths = EmptyTable
    /\ scanned = FALSE
    /\ todo = <<>>
    /\ spc = [t \in Threads |-> "idle"]
    /\ sop = [t \in Threads |-> [op |-> "none", id |-> 0]]
    /\ sres = [t \in Threads |-> NoSlice]
    /\ shist = NoHist

\* the scanner is not in use
ScanIdle ==
    /\ rootExists = FALSE
    /\ fs = [p \in Paths |-> Absent]
    /\ mu = Unlocked
    /\ progPaths = EmptyTable
    /\ mapPaths = EmptyTable
    /\ scanned = FALSE
    /\ todo = <<>>
    /\ spc = [t \in Threads |-> "idle"]
    /\ sop = [t \in Threads |-> [op |-> "none", id |-> 0]]
    /\ sres = [t \in Threads |-> NoSlice]
    /\ shist = NoHist

\* the filesystem changes under the scanner: pins come and go
FsChange(p, st) ==
    /\ rootExists
    /\ fs[p] # st
    /\ fs' = [fs EXCEPT ![p] = st]
    /\ UNCHANGED <<kernVars, engVars, mapVars, callVars, travVars, onceVars, wrapVars, handleVars, rootExists, mu, progPaths, mapPaths, scanned,
                   todo, spc, sop, sres, shist>>

\* a thread calls Refresh(), GetProgramPinnedPaths(id) or GetMapPinnedPaths(id)
ScanCall(t, o, i) ==
    /\ spc[t] = "idle"
    /\ sop' = [sop EXCEPT ![t] = [op |-> o, id |-> i]]
    /\ spc' = [spc EXCEPT ![t] = IF o = "Refresh" THEN "r_lock" ELSE "e_lock"]
    /\ sres' = [sres EXCEPT ![t] = NoSlice]
    /\ shist' = [shist EXCEPT !.walked[t] = FALSE]
    /\ UNCHANGED <<kernVars, engVars, mapVars, callVars, travVars, onceVars, wrapVars, handleVars, rootExists, fs, mu, progPaths, mapPaths,
                   scanned, todo>>

\* Refresh: s.mu.Lock()
RefreshLock(t) ==
    /\ spc[t] = "r_lock"
    /\ mu = Unlocked
    /\ mu' = [mu EXCEPT !.w = t]
    /\ spc' = [spc EXCEPT ![t] = "r_held"]
    /\ UNCHANGED <<kernVars, engVars, mapVars, callVars, travVars, onceVars, wrapVars, handleVars, rootExists, fs, progPaths, mapPaths, scanned,
                   todo, sop, sres, shist>>

\* faulty variant: ensureScanned is called with the lock still held
RefreshInvalidate_KeepsLock(t) ==
    /\ spc[t] = "r_held"
    /\ scanned' = FALSE
    /\ spc' = [spc EXCEPT ![t] = "e_lock"]
    /\ shist' = [shist EXCEPT !.fresh[t] = FALSE]
    /\ UNCHANGED <<kernVars, engVars, mapVars, callVars, travVars, onceVars, wrapVars, handleVars, rootExists, fs, mu, progPaths, mapPaths, todo,
                   sop, sres>>

\* Refresh: s.scanned = false; s.mu.Unlock(); then ensureScanned is called
RefreshInvalidate(t) ==
    /\ spc[t] = "r_held"
    /\ scanned' = FALSE
    /\ mu' = Unlocked
    /\ spc' = [spc EXCEPT ![t] = "e_lock"]
    /\ shist' = [shist EXCEPT !.fresh[t] = FALSE]
    /\ UNCHANGED <<kernVars, engVars, mapVars, callVars, travVars, onceVars, wrapVars, handleVars, rootExists, fs, progPaths, mapPaths, todo,
                   sop, sres>>

\* ensureScanned: s.mu.Lock()
EnsureLock(t) ==
    /\ spc[t] = "e_lock"
    /\ mu = Unlocked
    /\ mu' = [mu EXCEPT !.w = t]
    /\ spc' = [spc EXCEPT ![t] = "e_held"]
    /\ UNCHANGED <<kernVars, engVars, mapVars, callVars, travVars, onceVars, wrapVars, handleVars, rootExists, fs, progPaths, mapPaths, scanned,
                   todo, sop, sres, shist>>

\* where a thread goes when ensureScanned returns
AfterEnsure(t) == IF sop[t].op = "Refresh" THEN "idle" ELSE "g_rlock"

\* faulty variant: the scan does not clear the tables before walking
EnsureScannedCheck_KeepsTables(t) ==
    /\ spc[t] = "e_held"
    /\ IF scanned
       THEN /\ mu' = Unlocked
            /\ spc' = [spc EXCEPT ![t] = AfterEnsure(t)]
            /\ UNCHANGED <<progPaths, mapPaths, scanned, todo, shist>>
       ELSE /\ UNCHANGED <<progPaths, mapPaths>>
            /\ scanned' = TRUE
            /\ shist' = [fresh |-> [u \in Threads |-> TRUE],
                         walked |-> [shist.walked EXCEPT ![t] = TRUE],
                         found |-> {},
                         last |-> NoLast,
                         noRoot |-> ~rootExists,
                         had |-> (progPaths # EmptyTable \/ mapPaths # EmptyTable),
                         walk |-> IF rootExists THEN StartWalk(fs) ELSE NoWalk]
            /\ IF ~rootExists
               THEN /\ mu' = Unlocked
                    /\ spc' = [spc EXCEPT ![t] = AfterEnsure(t)]
                    /\ UNCHANGED todo
               ELSE /\ todo' = Listing(fs, 1)
                    /\ spc' = [spc EXCEPT ![t] = "e_walk"]
                    /\ UNCHANGED mu
    /\ UNCHANGED <<kernVars, engVars, mapVars, callVars, travVars, onceVars, wrapVars, handleVars, rootExists, fs, sop, sres>>

\* faulty variant: the root is checked before the tables are cleared
EnsureScannedCheck_StatsFirst(t) ==
    /\ spc[t] = "e_held"
    /\ IF scanned
       THEN /\ mu' = Unlocked
            /\ spc' = [spc EXCEPT ![t] = AfterEnsure(t)]
            /\ UNCHANGED <<progPaths, mapPaths, scanned, todo, shist>>
       ELSE /\ scanned' = TRUE
            /\ shist' = [fresh |-> [u \in Threads |-> TRUE],
                         walked |-> [shist.walked EXCEPT ![t] = TRUE],
                         found |-> {},
                         last |-> NoLast,
                         noRoot |-> ~rootExists,
                         had |-> (progPaths # EmptyTable \/ mapPaths # EmptyTable),
                         walk |-> IF rootExists THEN StartWalk(fs) ELSE NoWalk]
            /\ IF ~rootExists
               THEN /\ mu' = Unlocked
                    /\ spc' = [spc EXCEPT ![t] = AfterEnsure(t)]
                    /\ UNCHANGED <<progPaths, mapPaths, todo>>
               ELSE /\ progPaths' = EmptyTable
                    /\ mapPaths' = EmptyTable
                    /\ todo' = Listing(fs, 1)
                    /\ spc' = [spc EXCEPT ![t] = "e_walk"]
                    /\ UNCHANGED mu
    /\ UNCHANGED <<kernVars, engVars, mapVars, callVars, travVars, onceVars, wrapVars, handleVars, rootExists, fs, sop, sres>>

\* faulty variant: the flag is not looked at, every call scans
EnsureScannedCheck_AlwaysScans(t) ==
    /\ spc[t] = "e_held"
    /\ progPaths' = EmptyTable
    /\ mapPaths' = EmptyTable
    /\ scanned' = TRUE
    /\ shist' = [fresh |-> [u \in Threads |-> TRUE],
                 walked |-> [shist.walked EXCEPT ![t] = TRUE],
                 found |-> {},
                 last |-> NoLast,
                 noRoot |-> ~rootExists,
                 had |-> (progPaths # EmptyTable \/ mapPaths # EmptyTable),
                 walk |-> IF rootExists THEN StartWalk(fs) ELSE NoWalk]
    /\ IF ~rootExists
       THEN /\ mu' = Unlocked
            /\ spc' = [spc EXCEPT ![t] = AfterEnsure(t)]
            /\ UNCHANGED todo
       ELSE /\ todo' = Listing(fs, 1)
            /\ spc' = [spc EXCEPT ![t] = "e_walk"]
            /\ UNCHANGED mu
    /\ UNCHANGED <<kernVars, engVars, mapVars, callVars, travVars, onceVars, wrapVars, handleVars, rootExists, fs, sop, sres>>

\* ensureScanned under the lock: return if scanned; otherwise clear both
\* tables, set scanned, and return if the root does not exist, else walk
EnsureScannedCheck(t) ==
    /\ spc[t] = "e_held"
    /\ IF scanned
       THEN /\ mu' = Unlocked
            /\ spc' = [spc EXCEPT ![t] = AfterEnsure(t)]
            /\ UNCHANGED <<progPaths, mapPaths, scanned, todo, shist>>
       ELSE /\ progPaths' = EmptyTable
            /\ mapPaths' = EmptyTable
            /\ scanned' = TRUE
            /\ shist' = [fresh |-> [u \in Threads |-> TRUE],
                         walked |-> [shist.walked EXCEPT ![t] = TRUE],
                         found |-> {},
                         last |-> NoLast,
                         noRoot |-> ~rootExists,
                         had |-> (progPaths # EmptyTable \/ mapPaths # EmptyTable),
                         walk |-> IF rootExists THEN StartWalk(fs) ELSE NoWalk]
            /\ IF ~rootExists
               THEN /\ mu' = Unlocked
                    /\ spc' = [spc EXCEPT ![t] = AfterEnsure(t)]
                    /\ UNCHANGED todo
               ELSE /\ todo' = Listing(fs, 1)
                    /\ spc' = [spc EXCEPT ![t] = "e_walk"]
                    /\ UNCHANGED mu
    /\ UNCHANGED <<kernVars, engVars, mapVars, callVars, travVars, onceVars, wrapVars, handleVars, rootExists, fs, sop, sres>>

\* what the callback does with one path: nothing on an error or a
\* directory; on a file the program probe, and the map probe only if the
\* program did not open; an object that opened yields its ID or none
SeenAs(st, acc) ==
    IF st.k = "absent" \/ acc = "nostat" THEN "error"
    ELSE IF st.k = "dir" THEN "dir"
    ELSE "file"

ProbesOf(p, st, acc, info) ==
    LET got == IF info = "ok" THEN st.id ELSE 0 IN
    IF SeenAs(st, acc) # "file" THEN {}
    ELSE IF st.k = "prog" /\ acc = "ok" THEN {Probe(p, "prog", TRUE, got)}
    ELSE IF st.k = "map" /\ acc = "ok"
    THEN {Probe(p, "prog", FALSE, 0), Probe(p, "map", TRUE, got)}
    ELSE {Probe(p, "prog", FALSE, 0), Probe(p, "map", FALSE, 0)}

NoteWalk(h, p, st, acc, info) ==
    LET made == ProbesOf(p, st, acc, info) IN
    [h EXCEPT !.walk.seen = @ \cup {<<p, SeenAs(st, acc)>>},
              !.walk.probes = @ \cup made,
              !.found = @ \cup {<<pr.kind, pr.id, p>> : pr \in {q \in made : q.opened /\ q.id # 0}}]

\* faulty variant: a file that opens as neither kind, or yields no ID, ends
\* the walk
WalkStep_AbortsOnFailure(t, acc, info) ==
    /\ spc[t] = "e_walk"
    /\ todo # <<>>
    /\ LET p == Head(todo)
           st == fs[p]
           made == ProbesOf(p, st, acc, info)
           ok == \E pr \in made : pr.opened /\ pr.id # 0
       IN /\ todo' = IF SeenAs(st, acc) = "file" /\ ~ok THEN <<>> ELSE Tail(todo)
          /\ shist' = NoteWalk(shist, p, st, acc, info)
          /\ progPaths' = IF \E pr \in made : pr.kind = "prog" /\ pr.opened /\ pr.id # 0
                          THEN AppendPath(progPaths, st.id, p) ELSE progPaths
          /\ mapPaths' = IF \E pr \in made : pr.kind = "map" /\ pr.opened /\ pr.id # 0
                         THEN AppendPath(mapPaths, st.id, p) ELSE mapPaths
    /\ UNCHANGED <<kernVars, engVars, mapVars, callVars, travVars, onceVars, wrapVars, handleVars, rootExists, fs, mu, scanned, spc, sop, sres>>

\* faulty variant: the map probe is made whether or not the program opened
WalkStep_ProbesBoth(t, acc, info) ==
    /\ spc[t] = "e_walk"
    /\ todo # <<>>
    /\ LET p == Head(todo)
           st == fs[p]
           asProg == SeenAs(st, acc) = "file" /\ st.k = "prog" /\ acc = "ok"
           asMap == SeenAs(st, acc) = "file" /\ st.k = "map" /\ acc = "ok"
           also == IF asProg THEN {Probe(p, "map", FALSE, 0)} ELSE {}
       IN /\ todo' = Tail(todo)
          /\ shist' = [NoteWalk(shist, p, st, acc, info) EXCEPT !.walk.probes = @ \cup also]
          /\ progPaths' = IF asProg /\ info = "ok" THEN AppendPath(progPaths, st.id, p) ELSE progPaths
          /\ mapPaths' = IF asMap /\ info = "ok" THEN AppendPath(mapPaths, st.id, p) ELSE mapPaths
    /\ UNCHANGED <<kernVars, engVars, mapVars, callVars, travVars, onceVars, wrapVars, handleVars, rootExists, fs, mu, scanned, spc, sop, sres>>

\* the walk callback on the next path: an entry that cannot be stat'ed or
\* is a directory is skipped; a file is opened as a program, and only if
\* that fails as a map; the path is appended under the ID Info() reports
WalkStep(t, acc, info) ==
    /\ spc[t] = "e_walk"
    /\ todo # <<>>
    /\ LET p == Head(todo)
           st == fs[p]
           asProg == SeenAs(st, acc) = "file" /\ st.k = "prog" /\ acc = "ok"
           asMap == SeenAs(st, acc) = "file" /\ st.k = "map" /\ acc = "ok"
       IN /\ todo' = Tail(todo)
          /\ shist' = NoteWalk(shist, p, st, acc, info)
          /\ progPaths' = IF asProg /\ info = "ok" THEN AppendPath(progPaths, st.id, p) ELSE progPaths
          /\ mapPaths' = IF asMap /\ info = "ok" THEN AppendPath(mapPaths, st.id, p) ELSE mapPaths
    /\ UNCHANGED <<kernVars, engVars, mapVars, callVars, travVars, onceVars, wrapVars, handleVars, rootExists, fs, mu, scanned, spc, sop, sres>>

\* the walk is over: the deferred s.mu.Unlock() runs, ensureScanned returns
\* (the history of the walk ends with it)
WalkEnd(t) ==
    /\ spc[t] = "e_walk"
    /\ todo = <<>>
    /\ mu' = Unlocked
    /\ spc' = [spc EXCEPT ![t] = AfterEnsure(t)]
    /\ shist' = [shist EXCEPT !.walk = NoWalk]
    /\ UNCHANGED <<kernVars, engVars, mapVars, callVars, travVars, onceVars, wrapVars, handleVars, rootExists, fs, progPaths, mapPaths, scanned,
                   todo, sop, sres>>

\* faulty variant: the read lock is taken although a writer holds the lock
GetRLock_IgnoresWriter(t) ==
    /\ spc[t] = "g_rlock"
    /\ mu' = [mu EXCEPT !.r = @ \cup {t}]
    /\ spc' = [spc EXCEPT ![t] = "g_held"]
    /\ UNCHANGED <<kernVars, engVars, mapVars, callVars, travVars, onceVars, wrapVars, handleVars, rootExists, fs, progPaths, mapPaths, scanned,
                   todo, sop, sres, shist>>

\* GetProgramPinnedPaths / GetMapPinnedPaths: s.mu.RLock()
GetRLock(t) ==
    /\ spc[t] = "g_rlock"
    /\ mu.w = 0
    /\ mu' = [mu EXCEPT !.r = @ \cup {t}]
    /\ spc' = [spc EXCEPT ![t] = "g_held"]
    /\ UNCHANGED <<kernVars, engVars, mapVars, callVars, travVars, onceVars, wrapVars, handleVars, rootExists, fs, progPaths, mapPaths, scanned,
                   todo, sop, sres, shist>>

\* what a Get call hands out, and the history of it
Handout(t, alias) ==
    LET key == <<sop[t].op, sop[t].id>>
        got == IF sop[t].op = "GetProg" THEN PathsOf(progPaths, sop[t].id)
               ELSE PathsOf(mapPaths, sop[t].id)
        prev == IF shist.last.known /\ shist.last.key = key
                THEN [known |-> TRUE, paths |-> shist.last.paths, mutated |-> shist.last.dirty]
                ELSE NoPrev
    IN /\ sres' = [sres EXCEPT ![t] = [paths |-> got, orig |-> got, prev |-> prev,
                                       alias |-> alias, dirty |-> FALSE]]
       /\ shist' = [shist EXCEPT !.last = [known |-> TRUE, key |-> key, paths |-> got,
                                            dirty |-> FALSE]]

\* faulty variant: the table's own slice is returned, not a copy
GetRead_ReturnsTableSlice(t) ==
    /\ spc[t] = "g_held"
    /\ Handout(t, [tbl |-> IF sop[t].op = "GetProg" THEN "prog" ELSE "map", id |-> sop[t].id])
    /\ mu' = [mu EXCEPT !.r = @ \ {t}]
    /\ spc' = [spc EXCEPT ![t] = "idle"]
    /\ UNCHANGED <<kernVars, engVars, mapVars, callVars, travVars, onceVars, wrapVars, handleVars, rootExists, fs, progPaths, mapPaths, scanned,
                   todo, sop>>

\* return append([]string(nil), s.progPaths[id]...), RUnlock deferred
GetRead(t) ==
    /\ spc[t] = "g_held"
    /\ Handout(t, NoAlias)
    /\ mu' = [mu EXCEPT !.r = @ \ {t}]
    /\ spc' = [spc EXCEPT ![t] = "idle"]
    /\ UNCHANGED <<kernVars, engVars, mapVars, callVars, travVars, onceVars, wrapVars, handleVars, rootExists, fs, progPaths, mapPaths, scanned,
                   todo, sop>>

\* the history notes that the most recently returned list was written to
NoteWrite(t) ==
    IF shist.last.known /\ shist.last.key = <<sop[t].op, sop[t].id>>
    THEN [shist EXCEPT !.last.dirty = TRUE]
    ELSE shist

\* the written table entry, when the caller's slice shares its backing array
WriteThrough(tbl, name, alias, k, v) ==
    IF alias.tbl = name /\ alias.id \in DOMAIN tbl /\ k <= Len(tbl[alias.id])
    THEN [tbl EXCEPT ![alias.id][k] = v]
    ELSE tbl

\* the caller overwrites an element of the list it was given
CallerOverwrite(t, k, v) ==
    /\ spc[t] = "idle" /\ sop[t].op \in GetOps
    /\ ~sres[t].dirty
    /\ k \in 1..Len(sres[t].paths)
    /\ sres' = [sres EXCEPT ![t].paths[k] = v, ![t].dirty = TRUE]
    /\ progPaths' = WriteThrough(progPaths, "prog", sres[t].alias, k, v)
    /\ mapPaths' = WriteThrough(mapPaths, "map", sres[t].alias, k, v)
    /\ shist' = NoteWrite(t)
    /\ UNCHANGED <<kernVars, engVars, mapVars, callVars, travVars, onceVars, wrapVars, handleVars, rootExists, fs, mu, scanned, todo, spc, sop>>

\* the caller appends to the list it was given: the copy has no spare
\* capacity shared with a table entry
CallerAppend(t, v) ==
    /\ spc[t] = "idle" /\ sop[t].op \in GetOps
    /\ ~sres[t].dirty
    /\ sres' = [sres EXCEPT ![t].paths = Append(@, v), ![t].dirty = TRUE]
    /\ shist' = NoteWrite(t)
    /\ UNCHANGED <<kernVars, engVars, mapVars, callVars, travVars, onceVars, wrapVars, handleVars, rootExists, fs, mu, progPaths, mapPaths,
                   scanned, todo, spc, sop>>

\* the bpffs root goes away with everything under it, or comes back empty
FsUnmount ==
    /\ rootExists
    /\ rootExists' = FALSE
    /\ fs' = [p \in Paths |-> Absent]
    /\ UNCHANGED <<kernVars, engVars, mapVars, callVars, travVars, onceVars, wrapVars, handleVars, mu, progPaths, mapPaths, scanned, todo, spc,
                   sop, sres, shist>>

FsMount ==
    /\ ~rootExists
    /\ rootExists' = TRUE
    /\ UNCHANGED <<kernVars, engVars, mapVars, callVars, travVars, onceVars, wrapVars, handleVars, fs, mu, progPaths, mapPaths, scanned, todo,
                   spc, sop, sres, shist>>

\* ------------------------------------------------------------------------
\* GetScanner: the global instance behind scannerOnce
\* ------------------------------------------------------------------------
NewOnce == [state |-> "new", by |-> 0]

OnceIdle ==
    /\ once = NewOnce
    /\ created = 0
    /\ globalScanner = 0
    /\ gpc = [t \in Threads |-> "idle"]
    /\ gres = [t \in Threads |-> 0]

\* a thread calls GetScanner()
GetScannerCall(t) ==
    /\ gpc[t] = "idle"
    /\ spc[t] = "idle"
    /\ gpc' = [gpc EXCEPT ![t] = "once"]
    /\ UNCHANGED <<kernVars, engVars, mapVars, scanVars, callVars, travVars, wrapVars, handleVars, once, created,
                   globalScanner, gres>>

\* faulty variant: `if globalScanner == nil { globalScanner = &Scanner{...} }`
\* with no synchronisation between the test and the assignment
scannerOnceDo_CheckThenCreate(t) ==
    /\ \/ /\ gpc[t] = "once"
          /\ gpc' = [gpc EXCEPT ![t] = IF globalScanner = 0 THEN "init" ELSE "ret"]
          /\ UNCHANGED <<once, created, globalScanner>>
       \/ /\ gpc[t] = "init"
          /\ created' = created + 1
          /\ globalScanner' = created + 1
          /\ gpc' = [gpc EXCEPT ![t] = "ret"]
          /\ UNCHANGED once
    /\ UNCHANGED <<kernVars, engVars, mapVars, scanVars, callVars, travVars, wrapVars, handleVars, gres>>

\* scannerOnce.Do(func() { globalScanner = &Scanner{...} }): the first caller
\* runs the function, a caller arriving meanwhile waits until it has
\* finished, a later caller passes
scannerOnceDo(t) ==
    /\ \/ /\ gpc[t] = "once"
          /\ once.state = "new"
          /\ once' = [state |-> "running", by |-> t]
          /\ gpc' = [gpc EXCEPT ![t] = "init"]
          /\ UNCHANGED <<created, globalScanner>>
       \/ /\ gpc[t] = "init"
          /\ created' = created + 1
          /\ globalScanner' = created + 1
          /\ once' = [state |-> "done", by |-> 0]
          /\ gpc' = [gpc EXCEPT ![t] = "ret"]
       \/ /\ gpc[t] = "once"
          /\ once.state = "done"
          /\ gpc' = [gpc EXCEPT ![t] = "ret"]
          /\ UNCHANGED <<once, created, globalScanner>>
    /\ UNCHANGED <<kernVars, engVars, mapVars, scanVars, callVars, travVars, wrapVars, handleVars, gres>>

\* return globalScanner
GetScannerReturn(t) ==
    /\ gpc[t] = "ret"
    /\ gres' = [gres EXCEPT ![t] = globalScanner]
    /\ gpc' = [gpc EXCEPT ![t] = "idle"]
    /\ UNCHANGED <<kernVars, engVars, mapVars, scanVars, callVars, travVars, wrapVars, handleVars, once, created,
                   globalScanner>>

\* ------------------------------------------------------------------------
\* pkg/errors: WrapError
\* ------------------------------------------------------------------------
ErrBpfFSNotMounted == [nil |-> FALSE, is |-> {"ErrBpfFSNotMounted"}, txt |-> {}, raw |-> FALSE]

\* how deep the errors handed to WrapError are wrapped
MaxWrap == 1

\* errors as the library and the tool produce them: errnos, sentinels, errors
\* with a message only
PlainErrors ==
    {Errno(e, raw) : e \in {"EPERM", "EACCES", "ENOENT", "EINVAL"}, raw \in BOOLEAN} \cup
    {ErrNotFound, ErrPermission, ErrKeyNotFound, ErrNoMoreKeys, ErrMapEmpty, ErrInvalidKey,
     ErrBpfFSNotMounted} \cup
    {Errorf({}), Errorf({"not found"}), Errorf({"permission denied"})}

RECURSIVE WrappedErrors(_)
WrappedErrors(n) ==
    IF n = 0 THEN PlainErrors
    ELSE LET below == WrappedErrors(n - 1) IN
         below \cup {Wrapf({}, e) : e \in below}

InputErrors == {Nil} \cup WrappedErrors(MaxWrap)

\* context strings, as the phrases strings.Contains finds in them: the empty
\* string, a context of its own, and one that mentions "pinned"
Contexts == {{}, {"listing programs"}, {"getting pinned program", "pinned"}}

NoWrapIn == [err |-> Nil, ctx |-> {}]

WrapIdle ==
    /\ wpc = "idle"
    /\ win = NoWrapIn
    /\ wout = Nil

\* IsBpfFSNotMounted: os.Stat("/sys/fs/bpf") reports that it does not exist
IsBpfFSNotMounted == ~rootExists

\* faulty variant: every error is wrapped as it is
WrapError_DefaultOnly(err, context) ==
    IF err.nil THEN Nil ELSE Wrapf(context, err)

\* WrapError(err, context)
WrapError(err, context) ==
    IF err.nil THEN Nil
    ELSE IF IsPermissionError(err) THEN Wrapf(context, ErrPermission)
    ELSE IF IsBpfFSNotMounted /\ "pinned" \in context THEN Wrapf(context, ErrBpfFSNotMounted)
    ELSE IF IsNotFoundError(err) THEN Wrapf(context, ErrNotFound)
    ELSE Wrapf(context, err)

\* a caller hands an error and a context to WrapError
WrapErrorCall(err, context) ==
    /\ wpc = "idle"
    /\ win' = [err |-> err, ctx |-> context]
    /\ wout' = WrapError(err, context)
    /\ wpc' = "done"
    /\ UNCHANGED <<kernVars, engVars, mapVars, scanVars, callVars, travVars, onceVars, handleVars>>

\* the caller goes on
WrapErrorNext ==
    /\ wpc = "done"
    /\ wpc' = "idle"
    /\ UNCHANGED <<kernVars, engVars, mapVars, scanVars, callVars, travVars, onceVars, win, wout,
                   handleVars>>

\* ------------------------------------------------------------------------
\* The engines' operations at the grain of their handles: every
\* NewProgramFromID / NewMapFromID that succeeds opens a handle, Close
\* releases it.  List closes right after the extraction; the other
\* operations close by defer, when they return.
\* ------------------------------------------------------------------------
HandleOps == {"List", "GetByID", "Dump", "Lookup", "GetNextKey"}

\* pkg/prog has List and GetByID; pkg/maps has all five
OpsOf(k) == IF k = "prog" THEN {"List", "GetByID"} ELSE HandleOps

\* what the work on an open map comes to: another pair (Dump), the result,
\* or a failure
WorkOutcomes == {"pair", "done", "fail"}

HandleIdle ==
    /\ hpc = "idle"
    /\ hop = "none"
    /\ hcur = 0
    /\ hopen = 0
    /\ hexit = "none"
    /\ hn = 0

\* an operation is called; List starts its cursor at 0
HStart(o, i) ==
    /\ hpc = "idle"
    /\ o \in OpsOf(kind)
    /\ hop' = o
    /\ hcur' = IF o = "List" THEN 0 ELSE i
    /\ hpc' = IF o = "List" THEN "next" ELSE "open"
    /\ UNCHANGED <<kernVars, engVars, mapVars, scanVars, callVars, travVars, onceVars, wrapVars,
                   hopen, hexit, hn>>

\* List, top of the loop: ProgramGetNextID / MapGetNextID; an error ends
\* the walk and List returns
HNextID(fault, raw) ==
    /\ hpc = "next"
    /\ LET r == GetNextID(table, hcur, cap, fault, raw) IN
       IF ~r.err.nil
       THEN hpc' = "ret" /\ UNCHANGED hcur
       ELSE hpc' = "open" /\ hcur' = r.id
    /\ UNCHANGED <<kernVars, engVars, mapVars, scanVars, callVars, travVars, onceVars, wrapVars,
                   hop, hopen, hexit, hn>>

\* NewProgramFromID / NewMapFromID: on an error no handle exists; List goes
\* on with the next ID, the other operations return the error
HOpen(fault, raw) ==
    /\ hpc = "open"
    /\ LET e == NewFromID(table, hcur, cap, fault, raw) IN
       IF ~e.nil
       THEN /\ hpc' = IF hop = "List" THEN "next" ELSE "ret"
            /\ hexit' = "open failed"
            /\ UNCHANGED hopen
       ELSE /\ hopen' = hopen + 1
            /\ hpc' = "held"
            /\ UNCHANGED hexit
    /\ UNCHANGED <<kernVars, engVars, mapVars, scanVars, callVars, travVars, onceVars, wrapVars,
                   hop, hcur, hn>>

\* faulty variant: List continues on an extraction error before it closes
HExtract_ContinuesBeforeClose(info) ==
    /\ hpc = "held"
    /\ hop \in {"List", "GetByID"}
    /\ LET failed == IF kind = "prog" THEN info # "ok" ELSE info = "infoerr" IN
       /\ hexit' = IF failed THEN "extraction failed" ELSE "success"
       /\ hpc' = IF failed /\ hop = "List" THEN "next" ELSE "close"
    /\ UNCHANGED <<kernVars, engVars, mapVars, scanVars, callVars, travVars, onceVars, wrapVars,
                   hop, hcur, hopen, hn>>

\* List and GetByID: extractProgramInfo / mapToMapInfo on the open handle;
\* whatever it returns, Close comes next (List: prog.Close() / m.Close()
\* before the error is looked at; GetByID: the deferred Close)
HExtract(info) ==
    /\ hpc = "held"
    /\ hop \in {"List", "GetByID"}
    /\ LET failed == IF kind = "prog" THEN info # "ok" ELSE info = "infoerr" IN
       hexit' = IF failed THEN "extraction failed" ELSE "success"
    /\ hpc' = "close"
    /\ UNCHANGED <<kernVars, engVars, mapVars, scanVars, callVars, travVars, onceVars, wrapVars,
                   hop, hcur, hopen, hn>>

\* Dump, Lookup and GetNextKey: m.Info() on the open handle; an error
\* returns, through the deferred Close
HInfo(info) ==
    /\ hpc = "held"
    /\ hop \in {"Dump", "Lookup", "GetNextKey"}
    /\ IF info = "infoerr"
       THEN hexit' = "metadata failed" /\ hpc' = "close"
       ELSE hpc' = "work" /\ UNCHANGED hexit
    /\ UNCHANGED <<kernVars, engVars, mapVars, scanVars, callVars, travVars, onceVars, wrapVars,
                   hop, hcur, hopen, hn>>

\* Dump: one iterator step, then iter.Err(); Lookup: m.Lookup; GetNextKey:
\* m.NextKey.  Every way out runs the deferred Close
HWork(out) ==
    /\ hpc = "work"
    /\ out = "pair" => hop = "Dump" /\ hn < MaxEntries
    /\ IF out = "pair"
       THEN hn' = hn + 1 /\ UNCHANGED <<hpc, hexit>>
       ELSE /\ hpc' = "close"
            /\ hexit' = IF out = "done" THEN "success"
                        ELSE IF hop = "Dump" THEN "iteration failed" ELSE "call failed"
            /\ UNCHANGED hn
    /\ UNCHANGED <<kernVars, engVars, mapVars, scanVars, callVars, travVars, onceVars, wrapVars,
                   hop, hcur, hopen>>

\* Close: in List the loop goes on to the next ID, elsewhere the operation
\* returns
HClose ==
    /\ hpc = "close"
    /\ hopen' = hopen - 1
    /\ hpc' = IF hop = "List" THEN "next" ELSE "ret"
    /\ UNCHANGED <<kernVars, engVars, mapVars, scanVars, callVars, travVars, onceVars, wrapVars,
                   hop, hcur, hexit, hn>>

\* the operation has returned; the caller can call again
HReturn ==
    /\ hpc = "ret"
    /\ hpc' = "idle"
    /\ hop' = "none"
    /\ hcur' = 0
    /\ hexit' = "none"
    /\ hn' = 0
    /\ UNCHANGED <<kernVars, engVars, mapVars, scanVars, callVars, travVars, onceVars, wrapVars,
                   hopen>>

\* ------------------------------------------------------------------------
\* Specifications: the engines, the map commands, the scanner
\* ------------------------------------------------------------------------
InitEngine ==
    /\ KernInit
    /\ EngInit
    /\ content = <<>>
    /\ MapIdle
    /\ ScanIdle
    /\ CallIdle
    /\ TravIdle
    /\ OnceIdle
    /\ WrapIdle
    /\ HandleIdle

NextEngine ==
    \/ \E i \in IDs : KernelCreate(i)
    \/ \E i \in IDs : KernelDestroy(i)
    \/ StartList
    \/ \E f \in Faults, raw \in BOOLEAN : ProgListNextID(f, raw)
    \/ \E f \in Faults, raw \in BOOLEAN : MapListNextID(f, raw)
    \/ \E f \in Faults, raw \in BOOLEAN, info \in InfoOutcomes : ProgListOpen(f, raw, info)
    \/ \E f \in Faults, raw \in BOOLEAN, info \in InfoOutcomes : MapListOpen(f, raw, info)
    \/ \E i \in IDs, f \in Faults, raw \in BOOLEAN, info \in InfoOutcomes :
          ProgGetByID(i, f, raw, info)
    \/ \E i \in IDs, f \in Faults, raw \in BOOLEAN, info \in InfoOutcomes :
          MapGetByID(i, f, raw, info)

SpecEngine == InitEngine /\ [][NextEngine]_vars

\* one step of a running List: the next-ID call or the open of the ID found
ListStep ==
    \/ \E f \in Faults, raw \in BOOLEAN : ProgListNextID(f, raw)
    \/ \E f \in Faults, raw \in BOOLEAN : MapListNextID(f, raw)
    \/ \E f \in Faults, raw \in BOOLEAN, info \in InfoOutcomes : ProgListOpen(f, raw, info)
    \/ \E f \in Faults, raw \in BOOLEAN, info \in InfoOutcomes : MapListOpen(f, raw, info)

\* the engines when every kernel call returns: a List that is running takes
\* its next step; the kernel table may change for ever
LiveEngine == InitEngine /\ [][NextEngine]_vars /\ WF_vars(ListStep)

InitMapCmd ==
    /\ KernInit
    /\ kind = "map"
    /\ EngIdle
    /\ MapInit
    /\ ScanIdle
    /\ CallIdle
    /\ TravIdle
    /\ OnceIdle
    /\ WrapIdle
    /\ HandleIdle

NextMapCmd ==
    \/ KernelDestroyMap
    \/ \E k \in Keys : KernelMapDelete(k)
    \/ \E k \in Keys, p \in 0..MaxEntries : KernelMapInsert(k, p)
    \/ \E a \in KeyArgs, i \in IDs, f \in Faults, raw \in BOOLEAN, info \in InfoOutcomes :
          runMapGetNextResolve(a, i, f, raw, info)
    \/ \E a \in KeyArgs, i \in IDs, f \in Faults, raw \in BOOLEAN, info \in InfoOutcomes :
          runMapLookupResolve(a, i, f, raw, info)
    \/ \E i \in IDs, f \in Faults, raw \in BOOLEAN, info \in InfoOutcomes :
          runMapDumpResolve(i, f, raw, info)
    \/ \E fo \in Faults, raw \in BOOLEAN, info \in InfoOutcomes, fk \in Faults :
          runMapGetNextCall(fo, raw, info, fk)
    \/ \E fo \in Faults, raw \in BOOLEAN, info \in InfoOutcomes, fk \in Faults :
          runMapLookupCall(fo, raw, info, fk)
    \/ \E fo \in Faults, raw \in BOOLEAN, info \in InfoOutcomes : DumpOpen(fo, raw, info)
    \/ \E f \in Faults : DumpNext(f)

SpecMapCmd == InitMapCmd /\ [][NextMapCmd]_vars

\* the threads contend over one path, which pins a program or a map or nothing
HotPath == Min(Paths)

HotID == Min(PinIDs)

HotStates == {Absent, [k |-> "prog", id |-> HotID], [k |-> "map", id |-> HotID]}

InitScanner ==
    /\ cap = TRUE
    /\ table = {}
    /\ kind = "prog"
    /\ EngIdle
    /\ content = <<>>
    /\ MapIdle
    /\ CallIdle
    /\ TravIdle
    /\ OnceIdle
    /\ WrapIdle
    /\ HandleIdle
    /\ ScanInit
    /\ fs \in [Paths -> HotStates]
    /\ \A p \in Paths \ {HotPath} : fs[p] = Absent

NextScanner ==
    \/ \E st \in HotStates : FsChange(HotPath, st)
    \/ \E t \in Threads : ScanCall(t, "Refresh", 0)
    \/ \E t \in Threads, o \in {"GetProg", "GetMap"} : ScanCall(t, o, HotID)
    \/ \E t \in Threads : RefreshLock(t)
    \/ \E t \in Threads : RefreshInvalidate(t)
    \/ \E t \in Threads : EnsureLock(t)
    \/ \E t \in Threads : EnsureScannedCheck(t)
    \/ \E t \in Threads, acc \in Access, info \in InfoOutcomes : WalkStep(t, acc, info)
    \/ \E t \in Threads : WalkEnd(t)
    \/ \E t \in Threads : GetRLock(t)
    \/ \E t \in Threads : GetRead(t)

SpecScanner == InitScanner /\ [][NextScanner]_vars

\* the scanner's calls on a filesystem that stays as it is: one pinned
\* program under a mounted root
InitLiveScanner ==
    /\ InitScanner
    /\ rootExists
    /\ fs[HotPath] = [k |-> "prog", id |-> HotID]

NextLiveScanner ==
    \/ \E t \in Threads : ScanCall(t, "Refresh", 0)
    \/ \E t \in Threads, o \in {"GetProg", "GetMap"} : ScanCall(t, o, HotID)
    \/ \E t \in Threads : RefreshLock(t)
    \/ \E t \in Threads : RefreshInvalidate(t)
    \/ \E t \in Threads : EnsureLock(t)
    \/ \E t \in Threads : EnsureScannedCheck(t)
    \/ \E t \in Threads : WalkStep(t, "ok", "ok")
    \/ \E t \in Threads : WalkEnd(t)
    \/ \E t \in Threads : GetRLock(t)
    \/ \E t \in Threads : GetRead(t)

\* a thread's step that waits for nothing: code under a lock it holds, a
\* probe of the walk, an unlock
ThreadStep(t) ==
    \/ RefreshInvalidate(t)
    \/ EnsureScannedCheck(t)
    \/ WalkStep(t, "ok", "ok")
    \/ WalkEnd(t)
    \/ GetRead(t)

\* a thread's step that takes the lock: Lock in Refresh and ensureScanned,
\* RLock in the getters
LockStep(t) ==
    \/ RefreshLock(t)
    \/ EnsureLock(t)
    \/ GetRLock(t)

\* the scanner when probes return and the lock is scheduled fairly: a thread
\* that can go on does, and a thread that can take the lock again and again
\* gets it; calls may keep arriving for ever
LiveScanner ==
    /\ InitLiveScanner
    /\ [][NextLiveScanner]_vars
    /\ \A t \in Threads : WF_vars(ThreadStep(t)) /\ SF_vars(LockStep(t))


\* a caller of the Service interface and the process around a show command,
\* on a kernel table nothing changes: List(), the filters, GetByID after
\* List(), the exit code
InitService ==
    /\ KernInit
    /\ EngInit
    /\ content = <<>>
    /\ MapIdle
    /\ ScanIdle
    /\ CallIdle
    /\ TravIdle
    /\ OnceIdle
    /\ WrapIdle
    /\ HandleIdle

NextService ==
    \/ Tick
    \/ StartList
    \/ \E tag \in TagArgs : StartGetByTag(tag)
    \/ \E name \in NameArgs : StartGetByName(name)
    \/ \E f \in Faults, raw \in BOOLEAN : ProgListNextID(f, raw)
    \/ \E f \in Faults, raw \in BOOLEAN : MapListNextID(f, raw)
    \/ \E f \in Faults, raw \in BOOLEAN, info \in InfoOutcomes : ProgListOpen(f, raw, info)
    \/ \E f \in Faults, raw \in BOOLEAN, info \in InfoOutcomes : MapListOpen(f, raw, info)
    \/ ThenCall
    \/ \E i \in IDs, f \in Faults, raw \in BOOLEAN, info \in InfoOutcomes :
          ProgGetByID(i, f, raw, info)
    \/ \E i \in IDs, f \in Faults, raw \in BOOLEAN, info \in InfoOutcomes :
          MapGetByID(i, f, raw, info)
    \/ GetByTagReturn
    \/ GetByNameReturn
    \/ main

SpecService == InitService /\ [][NextService]_vars

\* a caller of pkg/maps on a map nothing changes: Dump and, when it
\* succeeded, a cursor traversal of the same map
InitMapSession ==
    /\ KernInit
    /\ kind = "map"
    /\ EngIdle
    /\ MapInit
    /\ ScanIdle
    /\ CallIdle
    /\ TravIdle
    /\ OnceIdle
    /\ WrapIdle
    /\ HandleIdle

NextMapSession ==
    \/ \E i \in IDs, f \in Faults, raw \in BOOLEAN, info \in InfoOutcomes :
          runMapDumpResolve(i, f, raw, info)
    \/ \E fo \in Faults, raw \in BOOLEAN, info \in InfoOutcomes : DumpOpen(fo, raw, info)
    \/ \E f \in Faults : DumpNext(f)
    \/ mpc = "done" /\ mret.err.nil /\ TraverseStart(mid)
    \/ \E fo \in Faults, raw \in BOOLEAN, info \in InfoOutcomes, fk \in Faults :
          TraverseStep(fo, raw, info, fk)
    \/ \E k \in Keys, fo \in Faults, raw \in BOOLEAN, info \in InfoOutcomes, fk \in Faults :
          TraverseLookup(k, fo, raw, info, fk)
    \/ TraverseAgain

SpecMapSession == InitMapSession /\ [][NextMapSession]_vars

\* one caller of the scanner, any pins under the root, the root itself
\* coming and going; one path changes while the index is invalid, which is
\* when the next scan can see the change
Caller == Min(Threads)

\* what a caller can write into a list: a string that is no path
Scribble == 0

InitScan ==
    /\ cap = TRUE
    /\ table = {}
    /\ kind = "prog"
    /\ EngIdle
    /\ content = <<>>
    /\ MapIdle
    /\ CallIdle
    /\ TravIdle
    /\ OnceIdle
    /\ WrapIdle
    /\ HandleIdle
    /\ ScanInit

NextScan ==
    \/ \E st \in FileStates :
          spc[Caller] \in {"idle", "e_lock"} /\ ~scanned /\ FsChange(HotPath, st)
    \/ FsUnmount
    \/ FsMount
    \/ ScanCall(Caller, "Refresh", 0)
    \/ \E o \in GetOps, i \in AskIDs : ScanCall(Caller, o, i)
    \/ RefreshLock(Caller)
    \/ RefreshInvalidate(Caller)
    \/ EnsureLock(Caller)
    \/ EnsureScannedCheck(Caller)
    \/ \E acc \in Access, info \in InfoOutcomes : WalkStep(Caller, acc, info)
    \/ WalkEnd(Caller)
    \/ GetRLock(Caller)
    \/ GetRead(Caller)
    \/ \E k \in 1..NPaths : CallerOverwrite(Caller, k, Scribble)
    \/ CallerAppend(Caller, Scribble)

SpecScan == InitScan /\ [][NextScan]_vars

\* threads obtain the scanner with GetScanner() and then use it
InitSingleton == InitScanner

NextSingleton ==
    \/ \E t \in Threads : GetScannerCall(t)
    \/ \E t \in Threads : scannerOnceDo(t)
    \/ \E t \in Threads : GetScannerReturn(t)
    \/ \E st \in HotStates : FsChange(HotPath, st)
    \/ \E t \in Threads, o \in GetOps :
          gpc[t] = "idle" /\ gres[t] # 0 /\ ScanCall(t, o, HotID)
    \/ \E t \in Threads : EnsureLock(t)
    \/ \E t \in Threads : EnsureScannedCheck(t)
    \/ \E t \in Threads, acc \in Access, info \in InfoOutcomes : WalkStep(t, acc, info)
    \/ \E t \in Threads : WalkEnd(t)
    \/ \E t \in Threads : GetRLock(t)
    \/ \E t \in Threads : GetRead(t)

SpecSingleton == InitSingleton /\ [][NextSingleton]_vars

\* WrapError on any error and context, the bpffs root present or not
InitWrap ==
    /\ cap = TRUE
    /\ table = {}
    /\ kind = "prog"
    /\ EngIdle
    /\ content = <<>>
    /\ MapIdle
    /\ ScanIdle
    /\ CallIdle
    /\ TravIdle
    /\ OnceIdle
    /\ WrapIdle
    /\ HandleIdle

NextWrap ==
    \/ wpc = "idle" /\ FsMount
    \/ wpc = "idle" /\ FsUnmount
    \/ \E err \in InputErrors, context \in Contexts : WrapErrorCall(err, context)
    \/ WrapErrorNext

SpecWrap == InitWrap /\ [][NextWrap]_vars

\* the operations of both engines, handle by handle, the kernel table
\* changing under them
InitHandles ==
    /\ KernInit
    /\ EngInit
    /\ content = <<>>
    /\ MapIdle
    /\ ScanIdle
    /\ CallIdle
    /\ TravIdle
    /\ OnceIdle
    /\ WrapIdle
    /\ HandleIdle

NextHandles ==
    \/ \E i \in IDs : KernelCreate(i)
    \/ \E i \in IDs : KernelDestroy(i)
    \/ \E o \in HandleOps, i \in IDs : HStart(o, i)
    \/ \E f \in Faults, raw \in BOOLEAN : HNextID(f, raw)
    \/ \E f \in Faults, raw \in BOOLEAN : HOpen(f, raw)
    \/ \E info \in InfoOutcomes : HExtract(info)
    \/ \E info \in InfoOutcomes : HInfo(info)
    \/ \E out \in WorkOutcomes : HWork(out)
    \/ HClose
    \/ HReturn

SpecHandles == InitHandles /\ [][NextHandles]_vars
\* ------------------------------------------------------------------------
\* Properties
\* ------------------------------------------------------------------------
ListDone == op = "List" /\ epc = "done"

\* the records of the walk's IDs that were opened and extracted, in order
OkRecords(w) ==
    LET oks == SelectSeq(w, LAMBDA e : e.res = "ok") IN [k \in 1..Len(oks) |-> oks[k].rec]

InSeq(x, s) == \E k \in 1..Len(s) : s[k] = x

\* C1: program List() whose very first next-ID call fails returns that
\* failure as an error.  (The program engine has no first-call check: this
\* is violated.)
C1_ProgListFirstCallFailureReturned ==
    (kind = "prog" /\ ListDone /\ Len(walk) = 1) => ~ret.err.nil

\* the next-key primitive was called and signalled end-of-sequence
NextKeyEndOfSequence ==
    /\ mlog # <<>>
    /\ mlog[Len(mlog)].prim = "nextkey"
    /\ "ENOENT" \in mlog[Len(mlog)].err.is

KeySupplied == ~keyData.nil /\ Len(keyData.b) > 0

GetNextReturned == mcmd = "getnext" /\ mpc = "done" /\ mret.stage = "call"

\* C2: when the next-key primitive signals end-of-sequence, getnext reports
\* MapEmpty iff no key was supplied and NoMoreKeys iff a key was supplied;
\* with the map's last key it reports NoMoreKeys.
C2_EndOfSequenceByKeySupplied ==
    (GetNextReturned /\ NextKeyEndOfSequence) =>
        /\ mret.err \in {ErrMapEmpty, ErrNoMoreKeys}
        /\ (mret.err = ErrMapEmpty <=> ~KeySupplied)
        /\ (mret.err = ErrNoMoreKeys <=> KeySupplied)
        /\ (content # <<>> /\ keyData = Bytes_(content[Len(content)])
               => mret.err = ErrNoMoreKeys)

C2_Witness_LastKey ==
    /\ GetNextReturned /\ NextKeyEndOfSequence
    /\ content # <<>> /\ keyData = Bytes_(content[Len(content)])
    /\ mret.err = ErrNoMoreKeys

\* C3: getnext reports MapEmpty or NoMoreKeys only when the map was opened
\* and its next-key primitive signalled end-of-sequence.  (A map removed
\* after the resolution fails to open with ENOENT, which IsNoMoreKeysError
\* accepts: this is violated.)
C3_EmptyOrNoMoreOnlyAtEndOfSequence ==
    (mcmd = "getnext" /\ mpc = "done" /\ mret.err \in {ErrMapEmpty, ErrNoMoreKeys})
        => NextKeyEndOfSequence

\* C4: lookup reports KeyNotFound only when the map exists, was opened, and
\* the key is absent from it.  (A map removed after the resolution fails to
\* open with ENOENT, which IsNotFoundError accepts: this is violated.)
C4_KeyNotFoundOnlyWhenKeyAbsent ==
    (mcmd = "lookup" /\ mpc = "done" /\ mret.err = ErrKeyNotFound) =>
        /\ mid \in table
        /\ mlog # <<>> /\ mlog[Len(mlog)].prim = "lookup"
        /\ IndexOf(content, keyData.b) = 0

DumpReturned == mcmd = "dump" /\ mpc = "done" /\ mret.stage = "call"

\* C5: Dump returns a nil error exactly when its iteration ended with
\* no-more-entries, and then all collected entries; on any failure it
\* returns the error and no entries, whatever had been collected.
C5_DumpAllOrNothing ==
    DumpReturned =>
        LET last == mlog[Len(mlog)] IN
        /\ mret.err.nil <=> (last.prim = "iter" /\ last.err.nil)
        /\ ~mret.err.nil => mret.val = <<>>
        /\ mret.err.nil => mret.val = entries
        /\ ~mhandle

C5_Witness_FailureAfterEntries ==
    /\ DumpReturned
    /\ Len(entries) >= 1
    /\ ~mret.err.nil
    /\ mret.val = <<>>

\* C6: in List (both engines) a discovered ID whose open fails contributes
\* no record and no error, the next call asks for the ID after it, and every
\* ID discovered later that is opened and extracted is in the result.
C6_OpenFailureSkipped ==
    op = "List" =>
        \A k \in 1..Len(walk) :
            (walk[k].call = "open" /\ walk[k].res = "openfail") =>
                /\ \A j \in 1..Len(records) : records[j].ID # walk[k].id
                /\ k < Len(walk) =>
                      (walk[k + 1].call = "next" /\ walk[k + 1].after = walk[k].id)
                /\ epc # "done" => epc = "next" \/ k < Len(walk)
                /\ epc = "done" =>
                      /\ ret.err.nil
                      /\ \A j \in 1..Len(ret.recs) : ret.recs[j].ID # walk[k].id
                      /\ \A j \in (k + 1)..Len(walk) :
                            walk[j].res = "ok" => InSeq(walk[j].rec, ret.recs)

C6_Witness_SkipThenRecord ==
    /\ ListDone
    /\ \E k, j \in 1..Len(walk) :
          k < j /\ walk[k].res = "openfail" /\ walk[j].res = "ok"
    /\ ret.recs # <<>>

\* C7: once a next-ID call has succeeded, a later end-of-sequence ends List
\* with a nil error and exactly the records collected so far (possibly none).
C7_LaterEndOfSequenceReturnsCollected ==
    (ListDone /\ Len(walk) > 1 /\ "ENOENT" \in walk[Len(walk)].err.is) =>
        /\ ret.err.nil
        /\ ret.recs = OkRecords(walk)

C7_Witness_EndAfterRecords ==
    /\ ListDone /\ Len(walk) > 1 /\ "ENOENT" \in walk[Len(walk)].err.is
    /\ Len(ret.recs) >= 1
    /\ \E k \in 1..Len(walk) : walk[k].res = "openfail"

\* C8: maps List() returns a failure of the first next-ID call as its error,
\* with no records, and never returns a failure of a later call.
C8_MapListFirstCallRule ==
    (kind = "map" /\ ListDone) =>
        /\ Len(walk) = 1 =>
              (~ret.err.nil /\ ret.err.is = walk[1].err.is /\ ret.recs = <<>>)
        /\ Len(walk) > 1 => ret.err.nil

C8_Witness_FirstCallDenied ==
    /\ kind = "map" /\ ListDone
    /\ Len(walk) = 1
    /\ "EPERM" \in ret.err.is

GetByIDDone == op = "GetByID" /\ epc = "done"

\* C9: GetByID (both engines) on an ID that is not in the table returns no
\* record and an error: NotFound when the kernel reports the ID absent,
\* PermissionDenied when access is refused, a generic error otherwise.
C9_GetByIDClassification ==
    GetByIDDone =>
        LET e == walk[1].err IN
        /\ id \notin table => (ret.recs = <<>> /\ ~ret.err.nil)
        /\ (id \notin table /\ cap /\ "EINVAL" \notin e.is) => "ENOENT" \in e.is
        /\ "ENOENT" \in e.is =>
              (ret.recs = <<>> /\ IsNotFoundError(ret.err) /\ ~IsPermissionError(ret.err))
        /\ "EPERM" \in e.is =>
              (ret.recs = <<>> /\ IsPermissionError(ret.err) /\ ~IsNotFoundError(ret.err))
        /\ "EINVAL" \in e.is =>
              (ret.recs = <<>> /\ ~ret.err.nil
               /\ ~IsPermissionError(ret.err) /\ ~IsNotFoundError(ret.err))

C9_Witness_AbsentID ==
    /\ GetByIDDone
    /\ kind = "prog"
    /\ id \notin table
    /\ ~walk[1].err.raw
    /\ IsNotFoundError(ret.err)

RefreshReturned(t) == spc[t] = "idle" /\ sop[t].op = "Refresh"

\* what the two tables hold, as (kind, ID, path) triples
TableEntries ==
    UNION {{<<"prog", i, progPaths[i][k]>> : k \in 1..Len(progPaths[i])} : i \in DOMAIN progPaths}
    \cup
    UNION {{<<"map", i, mapPaths[i][k]>> : k \in 1..Len(mapPaths[i])} : i \in DOMAIN mapPaths}

NoPathTwice ==
    /\ \A i \in DOMAIN progPaths : \A k, l \in 1..Len(progPaths[i]) :
          k # l => progPaths[i][k] # progPaths[i][l]
    /\ \A i \in DOMAIN mapPaths : \A k, l \in 1..Len(mapPaths[i]) :
          k # l => mapPaths[i][k] # mapPaths[i][l]

\* C10 as stated: every Refresh call has itself cleared and re-walked by the
\* time it returns.  (A concurrent caller's ensureScanned can serve the
\* invalidation first; this Refresh then returns without walking: violated.)
C10_EveryRefreshWalks ==
    \A t \in Threads : RefreshReturned(t) => shist.walked[t]

\* C10 amended: when a Refresh call returns, a scan has cleared and rebuilt
\* the tables after this call reset the scanned flag, and the tables hold
\* exactly what the latest scan found, each pin once.
C10_RefreshLeavesRescannedTables ==
    \A t \in Threads :
        RefreshReturned(t) =>
            /\ shist.fresh[t]
            /\ TableEntries = shist.found
            /\ NoPathTwice

C10_Witness_ServedByOtherThread ==
    \E t \in Threads :
        /\ RefreshReturned(t)
        /\ ~shist.walked[t]
        /\ shist.found # {}


\* ------------------------------------------------------------------------
\* Scanner: the lists handed out, and a scan without a root
\* ------------------------------------------------------------------------
GetReturned(t) == spc[t] = "idle" /\ sop[t].op \in GetOps

\* the table a Get call reads
TableOf(o) == IF o = "GetProg" THEN progPaths ELSE mapPaths

\* C11: GetProgramPinnedPaths(id) and GetMapPinnedPaths(id) return
\* independent copies.  Whatever the caller writes into a returned list, the
\* tables hold exactly what the scan put there; the list a call returned is
\* the table's entry for the ID, and so equals what the previous call for the
\* same ID returned when no scan ran in between; for an ID with no entry the
\* returned list is empty.
C11_ReturnedListsAreCopies ==
    /\ TableEntries = shist.found
    /\ \A t \in Threads :
          GetReturned(t) =>
            /\ sres[t].orig = PathsOf(TableOf(sop[t].op), sop[t].id)
            /\ sres[t].prev.known => sres[t].orig = sres[t].prev.paths
            /\ sop[t].id \notin DOMAIN TableOf(sop[t].op) => sres[t].orig = <<>>

\* a caller wrote into a non-empty list it was given and then asked again
\* for the same ID
C11_Witness_AskedAgainAfterWrite ==
    \E t \in Threads :
        /\ GetReturned(t)
        /\ sres[t].prev.known
        /\ sres[t].prev.mutated
        /\ sres[t].prev.paths # <<>>
        /\ sres[t].orig # <<>>

\* C12: a scan that finds no pin-filesystem root leaves both tables empty,
\* whatever they held before, marks the scanner as scanned and returns
\* without walking; ensureScanned has no error to return.
C12_NoRootScanLeavesEmptyTables ==
    shist.noRoot =>
        /\ progPaths = EmptyTable
        /\ mapPaths = EmptyTable
        /\ \A t \in Threads :
              shist.walked[t] => scanned /\ spc[t] \notin {"e_held", "e_walk"}

\* the scan found no root while the tables held entries of an earlier scan
C12_Witness_EntriesClearedWithoutRoot ==
    \E t \in Threads :
        /\ shist.noRoot
        /\ shist.had
        /\ shist.walked[t]
        /\ scanned
        /\ spc[t] = "idle"

\* ------------------------------------------------------------------------
\* pkg/maps: cursor traversal, Lookup and Dump on an unchanged map
\* ------------------------------------------------------------------------
\* the traversal ran to the end of the key space
TraversalEnded == tpc = "look" /\ tend \in {ErrNoMoreKeys, ErrMapEmpty}

YieldedKeys == {tkeys[i] : i \in 1..Len(tkeys)}

\* a Lookup call that got as far as the kernel's lookup, which did not fail
\* for a reason of its own
LookupAnswered(l) == Len(l.log) = 3 /\ "EINVAL" \notin l.log[3].err.is

\* C13: a cursor traversal of an unchanged map, from GetNextKey(no key) on,
\* each returned key fed into the next call, yields every key of the map
\* exactly once, in the same order on every traversal, and the call made
\* with the last key yields NoMoreKeys; Lookup of a yielded key returns that
\* key's value, Lookup of a key never yielded returns KeyNotFound.
C13_TraversalYieldsEveryKeyOnce ==
    TraversalEnded /\ tcur.id \in table =>
        /\ YieldedKeys = {content[i] : i \in 1..Len(content)}
        /\ \A i, j \in 1..Len(tkeys) : i # j => tkeys[i] # tkeys[j]
        /\ tkeys # <<>> => tend = ErrNoMoreKeys /\ tcur.key = Bytes_(tkeys[Len(tkeys)])
        /\ tprev.valid /\ tprev.end \in {ErrNoMoreKeys, ErrMapEmpty} => tprev.keys = tkeys
        /\ \A j \in 1..Len(tlook) :
              LookupAnswered(tlook[j]) =>
                 IF tlook[j].key \in YieldedKeys
                 THEN tlook[j].err = Nil /\ tlook[j].val = ValueOf(tlook[j].key)
                 ELSE tlook[j].err = ErrKeyNotFound

\* a second complete traversal of a map with keys, followed by a Lookup of a
\* key the traversal did not yield
C13_Witness_SecondTraversalAndAbsentKey ==
    /\ TraversalEnded
    /\ tkeys # <<>>
    /\ tprev.valid /\ tprev.end = ErrNoMoreKeys
    /\ tlook # <<>>
    /\ LookupAnswered(tlook[1])
    /\ tlook[1].key \notin YieldedKeys

\* Dump(id) returned without error
DumpSucceeded == mcmd = "dump" /\ mpc = "done" /\ mret.err.nil

\* C14: on an unchanged map, Dump(id) returns as many entries as the cursor
\* traversal takes successful GetNextKey steps from the no-key start to
\* NoMoreKeys, with the same keys in the same order; for an empty map Dump
\* returns the empty sequence without error and GetNextKey(no key) yields
\* MapEmpty.
C14_DumpMatchesTraversal ==
    /\ DumpSucceeded /\ TraversalEnded /\ tcur.id = mid =>
          /\ Len(mret.val) = Len(tkeys)
          /\ \A i \in 1..Len(tkeys) : mret.val[i].Key = tkeys[i]
    /\ DumpSucceeded /\ content = <<>> => mret.val = <<>>
    /\ TraversalEnded /\ content = <<>> => tend = ErrMapEmpty /\ tkeys = <<>>

\* a Dump of a map with several entries and a complete traversal of it
C14_Witness_DumpAndTraversalOfSeveral ==
    /\ DumpSucceeded
    /\ TraversalEnded
    /\ tcur.id = mid
    /\ Len(tkeys) >= 2

\* the lookup command called Lookup(id, key) with a key that is not KeySize
\* bytes long
LookupCalledWithMalformedKey ==
    /\ mcmd = "lookup" /\ mpc = "done" /\ mret.stage = "call"
    /\ Len(keyData.b) # KeySize

\* C15: Lookup(id, key) with a key whose length differs from the map's key
\* size fails with the invalid-input error, and no kernel call (map open,
\* metadata query, lookup) is made for it.
C15_MalformedKeyRejectedBeforeKernel ==
    LookupCalledWithMalformedKey =>
        /\ mret.err = ErrInvalidKey
        /\ mlog = <<>>

\* ------------------------------------------------------------------------
\* The Service interface: GetByID after List, the filters, the exit code
\* ------------------------------------------------------------------------
\* GetByID(id) was called right after List(), with no change of the kernel
\* table in between, and returned the record of that ID
GetByIDAfterList ==
    /\ GetByIDDone /\ ret.err.nil /\ ret.recs[1].ID = id
    /\ lret.valid /\ lret.err.nil /\ table = lret.table

\* C16: a GetByID call made right after List(), with no change of the kernel
\* table in between, for the ID of a listed record, returns a record equal to
\* the listed one in every field.  (LoadedAt is computed from the wall clock
\* at the time of each call: this is violated.)
C16_GetByIDEqualsListedRecord ==
    GetByIDAfterList =>
        \A k \in 1..Len(lret.recs) :
            lret.recs[k].ID = id => ret.recs[1] = lret.recs[k]

FilterReturned == op \in {"GetByTag", "GetByName"} /\ epc = "ret"

FilterField == IF op = "GetByTag" THEN "Tag" ELSE "Name"

\* the positions of List()'s result whose field equals the argument
MatchingPositions == {k \in 1..Len(lret.recs) : lret.recs[k][FilterField] = farg}

\* the j-th of them, in List order
NthMatching(j) ==
    CHOOSE k \in MatchingPositions : Cardinality({m \in MatchingPositions : m <= k}) = j

\* C17: GetByTag(tag) and GetByName(name) return exactly the records of
\* List()'s result whose Tag (Name) equals the argument, every one of them,
\* in List order; no match gives an empty result without error; an error of
\* List() is returned unchanged.
C17_FiltersReturnMatchingSubsequence ==
    FilterReturned =>
        IF lret.err.nil
        THEN /\ lret.recs = OkRecords(walk)
             /\ ret.err.nil
             /\ Len(ret.recs) = Cardinality(MatchingPositions)
             /\ \A j \in 1..Len(ret.recs) : ret.recs[j] = lret.recs[NthMatching(j)]
        ELSE /\ ret.err = lret.err
             /\ ret.recs = <<>>

\* a filter returned several records and left some of List()'s out
C17_Witness_SeveralOfMore ==
    /\ FilterReturned
    /\ lret.err.nil
    /\ Len(ret.recs) >= 2
    /\ Len(lret.recs) > Len(ret.recs)

\* a kernel operation of the invocation failed: a next-ID call for a reason
\* other than the end of the sequence, an open, or a metadata query
KernelOperationFailed ==
    \E k \in 1..Len(walk) :
        \/ walk[k].call = "next" /\ ~walk[k].err.nil /\ "ENOENT" \notin walk[k].err.is
        \/ walk[k].res \in {"openfail", "infofail"}

\* C18: an invocation in which a kernel operation fails, a permission-denied
\* failure while listing included, exits with a non-zero code, and one in
\* which every operation succeeds exits with 0.  (Program List() swallows
\* every failure of its walk: this is violated.)
C18_ExitCodeReflectsFailure ==
    exit # -1 =>
        /\ KernelOperationFailed => exit # 0
        /\ ~KernelOperationFailed => exit = 0

\* C19: the records List() returns are in strictly ascending ID order.  (The
\* map engine ignores the flag of info.ID() and lists a map whose ID is not
\* reported under ID 0: this is violated.)
C19_ListStrictlyAscending ==
    ListDone =>
        \A k, j \in 1..Len(ret.recs) : k < j => ret.recs[k].ID < ret.recs[j].ID

\* ------------------------------------------------------------------------
\* GetScanner
\* ------------------------------------------------------------------------
\* C20: GetScanner() returns the same instance to every call, concurrent
\* first calls included: at most one Scanner is ever created, a call that is
\* about to return finds it created, and every value returned is that one.
C20_OneScannerForEveryCall ==
    /\ created <= 1
    /\ \A t \in Threads :
          /\ gpc[t] = "ret" => created = 1 /\ globalScanner = 1
          /\ gres[t] # 0 => gres[t] = globalScanner

\* every thread has called GetScanner() and got the instance
C20_Witness_AllThreadsGotIt ==
    /\ created = 1
    /\ \A t \in Threads : gres[t] = 1 /\ gpc[t] = "idle"


\* ------------------------------------------------------------------------
\* WrapError
\* ------------------------------------------------------------------------
\* the call WrapError has just answered, and the case its bpffs branch is for
WrapDone == wpc = "done"

BpfFSCase == IsBpfFSNotMounted /\ "pinned" \in win.ctx

\* C21: WrapError(err, context) returns nil if and only if err is nil; for a
\* non-nil err the result's message contains the context; a permission error
\* comes back wrapping ErrPermission; an error that is no permission error
\* comes back wrapping ErrBpfFSNotMounted when the BPF filesystem is not
\* mounted and the context mentions "pinned"; outside that case a not-found
\* error comes back wrapping ErrNotFound and any other error is wrapped
\* unchanged.
C21_WrapErrorContract ==
    WrapDone =>
        LET err == win.err
            perm == IsPermissionError(err)
            notFound == IsNotFoundError(err)
        IN  /\ wout.nil <=> err.nil
            /\ ~err.nil => win.ctx \subseteq wout.txt
            /\ perm => "ErrPermission" \in wout.is
            /\ ~err.nil /\ ~perm /\ BpfFSCase => "ErrBpfFSNotMounted" \in wout.is
            /\ ~perm /\ ~BpfFSCase /\ notFound => "ErrNotFound" \in wout.is
            /\ ~err.nil /\ ~perm /\ ~BpfFSCase /\ ~notFound => wout = Wrapf(win.ctx, err)

\* an ENOENT came in with a context that mentions "pinned" while the BPF
\* filesystem was not mounted, and came back as ErrBpfFSNotMounted
C21_Witness_NotMountedPinned ==
    /\ WrapDone
    /\ "ENOENT" \in win.err.is
    /\ BpfFSCase
    /\ "ErrBpfFSNotMounted" \in wout.is
    /\ win.ctx \subseteq wout.txt

\* C21 as stated: every not-found error that is no permission error comes
\* back wrapping ErrNotFound, and any other error is wrapped unchanged,
\* whatever the context and the state of the BPF filesystem.  (With the
\* filesystem not mounted and "pinned" in the context these errors come back
\* as ErrBpfFSNotMounted: this is violated.)
C21_Stated_NotFoundAlwaysErrNotFound ==
    WrapDone =>
        LET err == win.err
            perm == IsPermissionError(err)
            notFound == IsNotFoundError(err)
        IN  /\ wout.nil <=> err.nil
            /\ ~err.nil => win.ctx \subseteq wout.txt
            /\ perm => "ErrPermission" \in wout.is
            /\ ~perm /\ notFound => "ErrNotFound" \in wout.is
            /\ ~err.nil /\ ~perm /\ ~notFound => wout = Wrapf(win.ctx, err)

\* ------------------------------------------------------------------------
\* Scanner: locking
\* ------------------------------------------------------------------------
\* the threads inside a write-locked section (Refresh's reset, or
\* ensureScanned with its walk), and those reading a table under the read lock
Writers == {t \in Threads : spc[t] \in {"r_held", "e_held", "e_walk"}}

Readers == {t \in Threads : spc[t] = "g_held"}

\* C22: while a scan is in progress no second scan runs and no reader reads
\* either table: at most one thread is inside a write-locked section, and
\* then no thread reads; a reader reads the tables as a completed scan left
\* them (exactly what the latest walk found, no walk under way).  The
\* scanned flag may have been reset by a concurrent Refresh by then.
C22_ScanExcludesScansAndReaders ==
    /\ Cardinality(Writers) <= 1
    /\ \A t \in Writers : mu.w = t /\ mu.r = {} /\ Readers = {}
    /\ \A t \in Readers :
          /\ t \in mu.r /\ mu.w = 0
          /\ todo = <<>>
          /\ TableEntries = shist.found

\* a reader reads a built table after a concurrent Refresh has reset the flag
C22_Witness_ReadAfterReset ==
    \E t \in Readers :
        /\ ~scanned
        /\ TableEntries # {}
        /\ TableEntries = shist.found
        /\ \E u \in Threads \ {t} : sop[u].op = "Refresh" /\ spc[u] = "e_lock"

\* C22 as stated: a table is read only while the scanned flag is true.  (A
\* Refresh can reset the flag between a reader's ensureScanned and its
\* RLock: this is violated.)
C22_Stated_ReadOnlyWhileScanned ==
    \A t \in Readers : scanned

\* ------------------------------------------------------------------------
\* Handles
\* ------------------------------------------------------------------------
\* C23: every handle an engine operation opens is released before the
\* operation returns, on every way out; at most one handle is open at any
\* moment, and in List none is open when the next ID is requested or the
\* next object opened.
C23_HandlesReleasedOnEveryPath ==
    /\ hopen \in {0, 1}
    /\ hpc \in {"idle", "ret", "next", "open"} => hopen = 0
    /\ hpc \in {"held", "work", "close"} => hopen = 1

\* List went on to the next ID after an extraction failed on an open object,
\* or Dump returned after its iteration failed part-way
C23_Witness_FailedWithHandleOpen ==
    /\ hopen = 0
    /\ \/ hop = "List" /\ hpc = "next" /\ hcur >= 1 /\ hexit = "extraction failed"
       \/ hop = "Dump" /\ hpc = "ret" /\ hn >= 1 /\ hexit = "iteration failed"

\* ------------------------------------------------------------------------
\* Dump: copies
\* ------------------------------------------------------------------------
\* C24: Dump copies each yielded pair before the next iteration step: while
\* it iterates, the entries appended so far are the pairs the iterator
\* yielded, step by step, so no later step changes an earlier entry; on
\* return the i-th entry holds the key and value yielded at step i, the key
\* KeySize and the value ValueSize bytes long.
C24_DumpEntriesAreThePairsYielded ==
    /\ mcmd = "dump" /\ mpc = "iter" => entries = yielded
    /\ DumpSucceeded =>
          /\ mret.val = yielded
          /\ \A i \in 1..Len(mret.val) :
                /\ Len(mret.val[i].Key) = KeySize
                /\ Len(mret.val[i].Value) = ValueSize

\* a Dump returned several entries, which differ in key and in value
C24_Witness_SeveralPairsReturned ==
    /\ DumpSucceeded
    /\ Len(mret.val) >= 2
    /\ mret.val[1].Key # mret.val[2].Key
    /\ mret.val[1].Value # mret.val[2].Value
    /\ yielded[1] = mret.val[1]

\* ------------------------------------------------------------------------
\* Scanner: the index and the walk
\* ------------------------------------------------------------------------
\* a scan is under way (the tables are cleared, the walk runs); the walk has
\* handled every name it read
Scanning == \E t \in Threads : spc[t] \in {"e_held", "e_walk"}

Walking == \E t \in Threads : spc[t] = "e_walk"

WalkComplete == Walking /\ todo = <<>>

\* the entries the probes of the walk account for: kind, ID, path of every
\* probe that opened its object and got an ID from it
ProbedEntries ==
    {<<pr.kind, pr.id, pr.path>> : pr \in {q \in shist.walk.probes : q.opened /\ q.id # 0}}

PathsIndexed == {e[3] : e \in TableEntries}

\* C25: the index is sound.  While a scan walks and when it has completed,
\* each path stored under ID i in the program table was opened as a program
\* by a probe of that scan which extracted i (likewise for the map table); a
\* file is probed as a map only if its program probe failed; no path is
\* stored in both tables, under two IDs, or twice; directories, entries with
\* an error and files that open as neither kind are in no table.  Between
\* scans nothing changes the tables, so this is so in every state after a
\* completed scan.
C25_IndexSound ==
    /\ [](Walking =>
            /\ TableEntries \subseteq ProbedEntries
            /\ \A pr \in shist.walk.probes :
                  pr.kind = "map" => Probe(pr.path, "prog", FALSE, 0) \in shist.walk.probes
            /\ \A e1, e2 \in TableEntries : e1[3] = e2[3] => e1 = e2
            /\ NoPathTwice
            /\ \A s \in shist.walk.seen : s[2] # "file" => s[1] \notin PathsIndexed
            /\ \A p \in Paths :
                  (\A pr \in shist.walk.probes : pr.path = p => ~pr.opened) => p \notin PathsIndexed)
    /\ [][(progPaths' # progPaths \/ mapPaths' # mapPaths) => Scanning]_vars

\* a walk has completed that indexed a map pin, whose program probe had
\* failed, and passed over an entry that is no pin
C25_Witness_MapIndexedAfterProgramProbeFailed ==
    /\ WalkComplete
    /\ \E e \in TableEntries :
          /\ e[1] = "map"
          /\ Probe(e[3], "prog", FALSE, 0) \in shist.walk.probes
          /\ Probe(e[3], "map", TRUE, e[2]) \in shist.walk.probes
    /\ \E s \in shist.walk.seen : s[1] \notin PathsIndexed

\* C26: a single entry's failure never aborts the walk.  Whatever fails at
\* other entries, the walk handles every name it read from the root, and
\* every file that opened as a program or as a map and yielded an ID is in
\* the index when the walk has completed.
C26_WalkVisitsEveryEntry ==
    /\ Walking =>
          /\ ProbedEntries \subseteq TableEntries
          /\ {s[1] : s \in shist.walk.seen} \cup {todo[k] : k \in 1..Len(todo)} = shist.walk.listed
    /\ WalkComplete => {s[1] : s \in shist.walk.seen} = shist.walk.listed

\* a walk has completed in which the first entry failed (an error, both
\* probes failed, or no ID) and a later one was indexed
C26_Witness_IndexedAfterAFailure ==
    /\ WalkComplete
    /\ \E p, q \in shist.walk.listed :
          /\ p < q
          /\ p \notin PathsIndexed
          /\ <<p, "dir">> \notin shist.walk.seen
          /\ q \in PathsIndexed

\* thread t leaves ensureScanned's locked check in this step
ChecksFlag(t) == spc[t] = "e_held" /\ spc'[t] # "e_held"

\* C27: ensureScanned is idempotent.  A call that finds the scanned flag true
\* returns at once: it starts no walk and makes no probe, and leaves both
\* tables and the flag as they are, whatever the filesystem holds by then.
\* Only Refresh resets the flag, so only Refresh causes a new walk.
C27_EnsureScannedIdempotent ==
    [][/\ \A t \in Threads :
             ChecksFlag(t) /\ scanned =>
                 /\ spc'[t] = AfterEnsure(t)
                 /\ UNCHANGED <<progPaths, mapPaths, scanned, todo>>
                 /\ shist'.walk = shist.walk
                 /\ shist'.walked = shist.walked
       /\ \A t \in Threads : ChecksFlag(t) /\ spc'[t] = "e_walk" => ~scanned
       /\ scanned /\ ~scanned' => \E t \in Threads : spc[t] = "r_held" /\ sop[t].op = "Refresh"]_vars

\* a Get call returned the indexed path without a walk of its own, the scanned
\* flag still true, although the pin is gone from the filesystem
C27_Witness_StaleIndexServed ==
    \E t \in Threads :
        /\ spc[t] = "idle"
        /\ sop[t].op \in GetOps
        /\ ~shist.walked[t]
        /\ scanned
        /\ sres[t].paths = <<HotPath>>
        /\ fs[HotPath] = Absent
        /\ TableEntries # {}

\* ------------------------------------------------------------------------
\* Extraction
\* ------------------------------------------------------------------------
\* C28: extraction never emits a partially populated record: a record that
\* List or GetByID returns carries the ID of the object it was extracted
\* from, never a placeholder; an object whose ID cannot be resolved is
\* skipped by List and is an error of GetByID.  (mapToMapInfo drops the flag
\* of info.ID() and emits the record with ID 0: this is violated.)
C28_NoPlaceholderID ==
    (ListDone \/ GetByIDDone) /\ ret.err.nil =>
        \A k \in 1..Len(ret.recs) :
            /\ ret.recs[k].ID # 0
            /\ \E j \in 1..Len(walk) : walk[j].call = "open" /\ walk[j].id = ret.recs[k].ID

\* ------------------------------------------------------------------------
\* Termination
\* ------------------------------------------------------------------------
ListRunning == op = "List" /\ epc \in {"next", "open"}

\* C29: List() terminates.  Every next-ID call that finds an ID moves the
\* cursor to a strictly greater ID, and, every kernel call returning, a List
\* that is running eventually returns, whatever is created and destroyed
\* meanwhile and however many opens fail.
C29_ListTerminates ==
    /\ [][ListRunning /\ epc = "next" /\ epc' = "open" => id' > id]_vars
    /\ [][ListRunning /\ epc = "open" => id' = id]_vars
    /\ (ListRunning ~> ListDone)

\* a List has returned after several iterations in which every open failed
C29_Witness_ReturnedAfterEveryOpenFailed ==
    /\ ListDone
    /\ ret.recs = <<>>
    /\ Cardinality({j \in 1..Len(walk) : walk[j].call = "open"}) >= 2
    /\ \A j \in 1..Len(walk) : walk[j].call = "open" => walk[j].res = "openfail"

\* a thread waits for the lock
WaitsForLock(t) == spc[t] \in {"r_lock", "e_lock", "g_rlock"}

\* C30: the scanner's locking is deadlock-free.  No thread waits for the lock
\* while it holds it, as writer or as reader, and, the lock being scheduled
\* fairly and every probe returning, every call of Refresh,
\* GetProgramPinnedPaths and GetMapPinnedPaths eventually returns, under
\* every interleaving of the threads' calls.
C30_ScannerDeadlockFree ==
    /\ [](\A t \in Threads : WaitsForLock(t) => mu.w # t /\ t \notin mu.r)
    /\ \A t \in Threads : (spc[t] # "idle") ~> (spc[t] = "idle")

\* every thread is inside a call at once: one walks under the write lock,
\* the others wait for the lock, a Refresh among the calls
C30_Witness_AllThreadsContend ==
    /\ \E t \in Threads : spc[t] = "e_walk" /\ mu.w = t
    /\ \A t \in Threads : spc[t] = "e_walk" \/ WaitsForLock(t)
    /\ \E t \in Threads : sop[t].op = "Refresh"
    /\ \E t \in Threads : sop[t].op \in GetOps
====
